---- MODULE Spec2Model ----
(***************************************************************************)
(* The Sidequest pipeline orchestrator (backend/agents/coordinator.py) and *)
(* its five stages, as a state machine.                                    *)
(*                                                                         *)
(* Python dicts are records (the empty dict is the empty function), and    *)
(* Python lists that are shared by reference live in `heap`: a dict field  *)
(* holding a list holds the reference of the list object, so that          *)
(* dict.copy() (a shallow copy) is modelled by what it does.               *)
(*                                                                         *)
(* The second part is the ExperienceCache of                               *)
(* backend/services/experience_cache.py with its lock, its client threads  *)
(* and its background refresh threads (specification CacheSpec).           *)
(***************************************************************************)
EXTENDS Integers, Sequences, FiniteSets, TLC

\* Discovery yields between 0 and MaxItems items.
MaxItems == 2
\* The request's budget_max ranges over -1 .. MaxBudget.
MaxBudget == 1
\* The Generation Service reports a total_estimate in 0 .. MaxTotal.
MaxTotal == 2
\* The clock of the cache advances at most MaxTicks times.
MaxTicks == 3

VARIABLES
    pc,               \* position of run_workflow
    state,            \* the canonical AgentState dict
    heap,             \* list objects: reference -> contents
    cultural_state,   \* the dict run_cultural_context was given and returns
    community_state,  \* the dict run_community was given and returns
    ctx_pc,           \* position of the run_cultural_context task
    com_pc,           \* position of the run_community task
    invoked,          \* Generation Service calls made so far, per stage
    failed,           \* the stages whose call has failed so far
    response,         \* what run_workflow returned
    cache,            \* ExperienceCache._cache: key -> CacheEntry
    lock,             \* ExperienceCache._lock: the thread holding it, or None
    refresh_thread,   \* ExperienceCache._refresh_thread: a thread, or None
    stop_refresh,     \* ExperienceCache._stop_refresh: whether the Event is set
    thread,           \* per thread: its position and its local variables
    now,              \* datetime.now(), in seconds
    shared,           \* <<thread, key>>: the list the thread was returned
                      \* is the list object the entry of the key holds
    fetch_pc,         \* position of fetch_all
    all_experiences,  \* fetch_all's list of SourceExperience so far
    source_outcome,   \* per source: what its call did (returned or raised)
    fetch_result,     \* what fetch_all returned
    dedup_pc,         \* position of a caller of _deduplicate
    dedup_input,      \* the list _deduplicate is given
    dedup_unique      \* the list _deduplicate returns

run_vars == <<pc, state, heap, cultural_state, community_state, ctx_pc, com_pc,
              invoked, failed, response>>

cache_vars == <<cache, lock, refresh_thread, stop_refresh, thread, now, shared>>

source_vars == <<fetch_pc, all_experiences, source_outcome, fetch_result,
                 dedup_pc, dedup_input, dedup_unique>>

vars == <<run_vars, cache_vars, source_vars>>

----------------------------------------------------------------------------
\* Values

Stages == {"discovery", "cultural_context", "community", "plot_builder", "budget"}

\* Ways a Generation Service call fails: the call raises, or its text is not JSON.
Failures == {"transport_error", "parse_error"}

EmptyDict == <<>>

None == [none |-> TRUE]

\* dict.get(k, default)
Get(d, k, default) == IF k \in DOMAIN d THEN d[k] ELSE default

\* Python truthiness of a dict and of a list
DictTruthy(d) == DOMAIN d # {}

ListTruthy(l) == Len(l) > 0

\* The discovered items: n dicts with distinct names.
Items(n) == [i \in 1..n |-> [name |-> ToString(i), category |-> "food"]]

Names(experiences) == {experiences[i].name : i \in 1..Len(experiences)}

BudgetMaxValues == (0 - 1)..MaxBudget

\* List objects. A reference is <<field, owner>>; the owner is the dict whose
\* construction created the list.
Owners == {"state", "cultural", "community"}

Refs == {"agent_trace", "errors", "initial_experiences", "discovery_result"} \X Owners

TraceEntry(agent, status) == [agent |-> agent, status |-> status]

ErrorEntry(agent, msg) == [agent |-> agent, error |-> msg]

\* state["agent_trace"].append(e) and state["errors"].append(e): the list object
\* the dict refers to is changed in place.
AppendTrace(h, st, e) == [h EXCEPT ![st.agent_trace] = Append(@, e)]

AppendError(h, st, e) == [h EXCEPT ![st.errors] = Append(@, e)]

\* An except clause that would catch json.JSONDecodeError only.
CaughtOnlyParseError(outcome) == outcome = "parse_error"

\* The except clause of a stage: `except Exception` catches every failure.
Caught(outcome) == outcome \in Failures

----------------------------------------------------------------------------
\* _create_initial_state

InitialState(budget_max) ==
    [ budget_range           |-> <<0, budget_max>>,
      discovered_experiences |-> <<"initial_experiences", "state">>,
      cultural_context       |-> EmptyDict,
      narrative_itinerary    |-> "",
      budget_breakdown       |-> EmptyDict,
      social_scaffolding     |-> EmptyDict,
      collision_suggestion   |-> EmptyDict,
      agent_trace            |-> <<"agent_trace", "state">>,
      errors                 |-> <<"errors", "state">>,
      session_id             |-> "session" ]

\* The threads that use the cache: callers of its methods, and the Thread
\* objects start_background_refresh can create.
Clients == {"c1", "c2"}

Workers == {"w1", "w2"}

\* A caller that works alone, with a wider choice of arguments.
SoloCallers == {"s1"}

Threads == Clients \cup Workers \cup SoloCallers

\* No thread: the lock is free, self._refresh_thread is None.
NoThread == "None"

\* What a method has returned to its caller.
NoReturn == [kind |-> "pending"]

ReturnedNone == [kind |-> "none"]

ReturnedItems(items) == [kind |-> "items", items |-> items]

Raised == [kind |-> "raised"]

\* The local variables of a thread that is in no method of the cache.
\* `fetched` is what fetch_all returned to get_or_fetch, before the filter
\* rebinds `experiences`.
Locals(position) ==
    [ pc            |-> position,
      op            |-> "",
      city          |-> "",
      category      |-> "",
      force_refresh |-> FALSE,
      experiences   |-> <<>>,
      fetched       |-> <<>>,
      calls         |-> 0,
      cities        |-> <<>>,
      idx           |-> 0,
      wait_until    |-> 0,
      joined        |-> "",
      ret           |-> NoReturn ]

\* ExperienceCache(): an empty entry table, a free lock, no refresh thread,
\* the stop event cleared.
CacheCreated ==
    /\ cache = EmptyDict
    /\ lock = NoThread
    /\ refresh_thread = NoThread
    /\ stop_refresh = FALSE
    /\ thread = [t \in Threads |-> IF t \in Workers THEN Locals("unborn")
                                                     ELSE Locals("idle")]
    /\ now = 0
    /\ shared = {}

----------------------------------------------------------------------------
\* experience_sources.py: SourceExperience, the fetchers, fetch_all and
\* _deduplicate

\* SourceExperience: of its fields, the name and the source.
SourceExperience(name, source) == [name |-> name, source |-> source]

\* SourceExperience.to_dict: asdict, field by field.
to_dict(exp) == [name |-> exp.name, source |-> exp.source]

\* A name is the sequence of its characters. str.isalnum holds of letters and
\* digits, str.isspace of the blank and the tab.
Alnum ==
    {"a", "A", "c", "C", "i", "I", "r", "s", "t",
     "1", "2", "3", "4", "5", "6", "7", "8"}

Whitespace == {" ", "\t"}

\* str.lower, character by character.
LowerChar(ch) ==
    CASE ch = "A" -> "a"
      [] ch = "C" -> "c"
      [] ch = "I" -> "i"
      [] OTHER    -> ch

name_lower(name) == [i \in 1..Len(name) |-> LowerChar(name[i])]

\* str.strip: the whitespace at both ends is removed, and only there.
RECURSIVE lstrip(_)
lstrip(name) ==
    IF name # <<>> /\ Head(name) \in Whitespace THEN lstrip(Tail(name))
                                                 ELSE name

RECURSIVE rstrip(_)
rstrip(name) ==
    IF name # <<>> /\ name[Len(name)] \in Whitespace
    THEN rstrip(SubSeq(name, 1, Len(name) - 1))
    ELSE name

name_strip(name) == rstrip(lstrip(name))

\* c.isalnum() or c.isspace()
IsKept(ch) == ch \in Alnum \/ ch \in Whitespace

\* The name _deduplicate compares: exp.name.lower().strip(), and then the
\* characters of it that are alphanumeric or whitespace.
normalized(exp) == SelectSeq(name_strip(name_lower(exp.name)), IsKept)

\* A loop that keeps the last item of each normalized name instead of the
\* first.
RECURSIVE dedup_loop_keeping_last(_, _, _)
dedup_loop_keeping_last(rest, seen_names, kept) ==
    IF rest = <<>> THEN kept
    ELSE LET exp == Head(rest)
             later == {normalized(Tail(rest)[i]) : i \in 1..Len(Tail(rest))}
         IN  IF normalized(exp) \notin later
             THEN dedup_loop_keeping_last(Tail(rest), seen_names, Append(kept, exp))
             ELSE dedup_loop_keeping_last(Tail(rest), seen_names, kept)

\* A loop that gives the items it keeps their normalized names.
RECURSIVE dedup_loop_renaming(_, _, _)
dedup_loop_renaming(rest, seen_names, kept) ==
    IF rest = <<>> THEN kept
    ELSE LET exp == Head(rest)
         IN  IF normalized(exp) \notin seen_names
             THEN dedup_loop_renaming(Tail(rest), seen_names \cup {normalized(exp)},
                      Append(kept, SourceExperience(normalized(exp), exp.source)))
             ELSE dedup_loop_renaming(Tail(rest), seen_names, kept)

\* A loop that ends at the first item whose normalized name has been seen.
RECURSIVE dedup_loop_stopping(_, _, _)
dedup_loop_stopping(rest, seen_names, kept) ==
    IF rest = <<>> THEN kept
    ELSE LET exp == Head(rest)
         IN  IF normalized(exp) \notin seen_names
             THEN dedup_loop_stopping(Tail(rest), seen_names \cup {normalized(exp)},
                                      Append(kept, exp))
             ELSE kept

\* The loop of _deduplicate over what is left of the list: an item is kept
\* when its normalized name has not been seen.
RECURSIVE dedup_loop(_, _, _)
dedup_loop(rest, seen_names, kept) ==
    IF rest = <<>> THEN kept
    ELSE LET exp == Head(rest)
         IN  IF normalized(exp) \notin seen_names
             THEN dedup_loop(Tail(rest), seen_names \cup {normalized(exp)},
                             Append(kept, exp))
             ELSE dedup_loop(Tail(rest), seen_names, kept)

deduplicate(exps) == dedup_loop(exps, {}, <<>>)

Digit == <<"1", "2", "3", "4", "5", "6", "7", "8">>

\* TravelGuideFetcher.CURATED_EXPERIENCES: eight items, whose names differ
\* after normalization.
CuratedCount == 8

CURATED_EXPERIENCES ==
    [i \in 1..CuratedCount |-> SourceExperience(<<"c", Digit[i]>>, "travel_guide")]

\* Below this many scraped items the curated list is added.
CuratedThreshold == 5

\* What scraping the travel sites yields, all sites together: i items with
\* names of their own. A site that fails contributes nothing (_scrape_source
\* and the loop of fetch_experiences both catch the failure).
Scraped(n) == [i \in 1..n |-> SourceExperience(<<"s", Digit[i]>>, "karnataka_tourism")]

\* Nothing; four items; four items and a page title that is a curated name
\* in capitals with a mark; five, six.
ScrapedLists ==
    {Scraped(0), Scraped(4),
     Append(Scraped(3), SourceExperience(<<"C", "1", "!">>, "karnataka_tourism")),
     Scraped(5), Scraped(6)}

\* A fetch_experiences that adds the curated list up to and including the
\* threshold.
travel_guide_experiences_at_most(scraped) ==
    IF Len(scraped) <= CuratedThreshold THEN scraped \o CURATED_EXPERIENCES
                                        ELSE scraped

\* TravelGuideFetcher.fetch_experiences, given what scraping yields.
travel_guide_experiences(scraped) ==
    IF Len(scraped) < CuratedThreshold THEN scraped \o CURATED_EXPERIENCES
                                       ELSE scraped

\* SocialMediaFetcher.MOCK_INSTAGRAM_EXPERIENCES and MOCK_TWITTER_EXPERIENCES.
MOCK_INSTAGRAM_EXPERIENCES ==
    [i \in 1..3 |-> SourceExperience(<<"i", Digit[i]>>, "instagram")]

MOCK_TWITTER_EXPERIENCES ==
    [i \in 1..2 |-> SourceExperience(<<"t", Digit[i]>>, "twitter")]

\* What RedditFetcher.fetch_experiences yields: no post (also when the
\* request fails, which it catches), a post, a post and one that names an
\* Instagram item with a space in front.
RedditLists ==
    {<<>>,
     <<SourceExperience(<<"r", "1">>, "reddit")>>,
     <<SourceExperience(<<"r", "1">>, "reddit"),
       SourceExperience(<<" ", "I", "1">>, "reddit")>>}

\* The sources of fetch_all.
SourceNames == {"travel_guides", "instagram", "twitter", "reddit"}

\* What a source call did: it has not been made, it raised, or it returned
\* items after live retrieval yielded `live`.
NotCalled == [kind |-> "none", live |-> <<>>, items |-> <<>>]

SourceRaised == [kind |-> "raised", live |-> <<>>, items |-> <<>>]

SourceReturned(live, items) == [kind |-> "returned", live |-> live, items |-> items]

\* No fetch_all and no _deduplicate call in progress.
FetcherIdle ==
    /\ fetch_pc = "idle"
    /\ all_experiences = <<>>
    /\ source_outcome = [s \in SourceNames |-> NotCalled]
    /\ fetch_result = <<>>

DedupIdle ==
    /\ dedup_pc = "idle"
    /\ dedup_input = <<>>
    /\ dedup_unique = <<>>

SourcesIdle == FetcherIdle /\ DedupIdle

\* fetch_all has been called: all_experiences = [].
FetchAllCalled ==
    /\ fetch_pc = "travel_guides"
    /\ all_experiences = <<>>
    /\ source_outcome = [s \in SourceNames |-> NotCalled]
    /\ fetch_result = <<>>

\* A try block that is left for the end of fetch_all when the source raises.
try_source_aborting(source, live, items, following) ==
    /\ fetch_pc = source
    /\ \/ /\ all_experiences' = all_experiences \o items
          /\ source_outcome' = [source_outcome EXCEPT ![source] = SourceReturned(live, items)]
          /\ fetch_pc' = following
       \/ /\ all_experiences' = all_experiences
          /\ source_outcome' = [source_outcome EXCEPT ![source] = SourceRaised]
          /\ fetch_pc' = "deduplicate"
    /\ UNCHANGED <<fetch_result, dedup_pc, dedup_input, dedup_unique>>

\* One try block of fetch_all: the source returns and all_experiences is
\* extended, or the source raises and the except clause logs it; either way
\* fetch_all goes on to what follows.
try_source(source, live, items, following) ==
    /\ fetch_pc = source
    /\ \/ /\ all_experiences' = all_experiences \o items
          /\ source_outcome' = [source_outcome EXCEPT ![source] = SourceReturned(live, items)]
       \/ /\ all_experiences' = all_experiences
          /\ source_outcome' = [source_outcome EXCEPT ![source] = SourceRaised]
    /\ fetch_pc' = following
    /\ UNCHANGED <<fetch_result, dedup_pc, dedup_input, dedup_unique>>

fetch_travel_guides ==
    \E scraped \in ScrapedLists :
        try_source("travel_guides", scraped, travel_guide_experiences(scraped), "instagram")

fetch_instagram ==
    try_source("instagram", <<>>, MOCK_INSTAGRAM_EXPERIENCES, "twitter")

fetch_twitter ==
    try_source("twitter", <<>>, MOCK_TWITTER_EXPERIENCES, "reddit")

fetch_reddit ==
    \E posts \in RedditLists : try_source("reddit", posts, posts, "deduplicate")

\* The end of fetch_all: the list is deduplicated and returned as dicts.
fetch_all_return ==
    /\ fetch_pc = "deduplicate"
    /\ LET unique_experiences == deduplicate(all_experiences)
       IN  fetch_result' = [i \in 1..Len(unique_experiences) |-> to_dict(unique_experiences[i])]
    /\ fetch_pc' = "returned"
    /\ UNCHANGED <<all_experiences, source_outcome, dedup_pc, dedup_input, dedup_unique>>

\* The lists _deduplicate is tried on: up to MaxDedupLen items, of two
\* sources, with names that differ in case, in marks, in whitespace at the
\* ends and inside.
MaxDedupLen == 3

ShortChars == {"a", "A", " ", "!"}

DedupNames ==
    {<<>>} \cup {<<x>> : x \in ShortChars}
           \cup {<<x, y>> : x \in ShortChars, y \in ShortChars}
           \cup {<<"a", " ", "!">>, <<"!", " ", "a">>, <<"a", " ", "a">>,
                 <<"a", "\t", "a">>, <<"a", "!", "a">>}

DedupItems == {SourceExperience(n, s) : n \in DedupNames, s \in {"reddit", "travel_guide"}}

DedupInputs == UNION {[1..n -> DedupItems] : n \in 0..MaxDedupLen}

\* _deduplicate is called with a list.
DedupCalled ==
    /\ dedup_pc = "call"
    /\ dedup_input \in DedupInputs
    /\ dedup_unique = <<>>

\* _deduplicate runs and returns.
dedup_call ==
    /\ dedup_pc = "call"
    /\ dedup_unique' = deduplicate(dedup_input)
    /\ dedup_pc' = "returned"
    /\ UNCHANGED <<dedup_input, fetch_pc, all_experiences, source_outcome, fetch_result>>

\* _deduplicate runs on the list it returned.
dedup_again ==
    /\ dedup_pc = "returned"
    /\ dedup_input' = dedup_unique
    /\ dedup_unique' = deduplicate(dedup_unique)
    /\ dedup_pc' = "reapplied"
    /\ UNCHANGED <<fetch_pc, all_experiences, source_outcome, fetch_result>>

\* The state run_workflow starts from.
RunCreated ==
    /\ pc = "start"
    /\ \E budget_max \in BudgetMaxValues : state = InitialState(budget_max)
    /\ heap = [r \in Refs |-> <<>>]
    /\ cultural_state = None
    /\ community_state = None
    /\ ctx_pc = "unborn"
    /\ com_pc = "unborn"
    /\ invoked = [s \in Stages |-> 0]
    /\ failed = {}
    /\ response = None

Init == RunCreated /\ CacheCreated /\ SourcesIdle

----------------------------------------------------------------------------
\* run_workflow, up to the fork

Start ==
    /\ pc = "start"
    /\ heap' = AppendTrace(heap, state, TraceEntry("coordinator", "started"))
    /\ pc' = "discovery"
    /\ UNCHANGED <<state, cultural_state, community_state, ctx_pc, com_pc,
                   invoked, failed, response>>

\* What run_discovery_agent returns.  On success the parsed JSON object, whose
\* discovered_experiences key may be absent; on failure an empty list and an
\* "error" key, with a message that depends on the except clause taken.
DiscoveryResult(outcome, items) ==
    CASE outcome = "ok"          -> [discovered_experiences |-> items,
                                     search_metadata |-> "metadata"]
      [] outcome = "ok_no_key"   -> [search_metadata |-> "metadata"]
      [] outcome = "parse_error" -> [discovered_experiences |-> <<>>,
                                     error |-> "Failed to parse agent output"]
      [] OTHER                   -> [discovered_experiences |-> <<>>,
                                     error |-> "transport_error"]

DiscoveryStatus(found) == IF ListTruthy(found) THEN "success" ELSE "error"

Discovery ==
    /\ pc = "discovery"
    /\ \E outcome \in {"ok", "ok_no_key"} \cup Failures, n \in 0..MaxItems :
         LET discovery_result == DiscoveryResult(outcome, Items(n))
             found == Get(discovery_result, "discovered_experiences", <<>>)
             ref   == <<"discovery_result", "state">>
             h1    == [heap EXCEPT ![ref] = found]
             h2    == IF "error" \in DOMAIN discovery_result
                      THEN AppendError(h1, state,
                               ErrorEntry("discovery", discovery_result.error))
                      ELSE h1
         IN  /\ state' = [state EXCEPT !.discovered_experiences = ref]
             /\ heap' = AppendTrace(h2, state,
                            [agent |-> "discovery",
                             status |-> DiscoveryStatus(found),
                             experiences_found |-> Len(found)])
             /\ failed' = IF outcome \in Failures
                          THEN failed \cup {"discovery"} ELSE failed
    /\ invoked' = [invoked EXCEPT !["discovery"] = @ + 1]
    /\ pc' = "fork"
    /\ UNCHANGED <<cultural_state, community_state, ctx_pc, com_pc, response>>

----------------------------------------------------------------------------
\* The branch set: asyncio.gather over two copies of the state

\* What copy.deepcopy would give: a copy of all list objects of the dict,
\* owned by `owner`.
DeepCopy(st, h, owner) ==
    LET fields == {"agent_trace", "errors", "discovered_experiences"}
        new(f) == <<st[f][1], owner>>
    IN  [ st   |-> [f \in DOMAIN st |-> IF f \in fields THEN new(f) ELSE st[f]],
          heap |-> [r \in Refs |->
                      IF \E f \in fields : r = new(f)
                      THEN h[st[CHOOSE f \in fields : r = new(f)]]
                      ELSE h[r]] ]

\* state.copy(): a new dict whose fields hold the same objects; no list object
\* is created.
Copy(st, h, owner) == [st |-> st, heap |-> h]

\* The arguments of asyncio.gather are evaluated (both copies taken), the two
\* coroutines become tasks and run_workflow suspends.
Fork ==
    /\ pc = "fork"
    /\ LET c1 == Copy(state, heap, "cultural")
           c2 == Copy(state, c1.heap, "community")
       IN  /\ cultural_state' = c1.st
           /\ community_state' = c2.st
           /\ heap' = c2.heap
    /\ ctx_pc' = "ready"
    /\ com_pc' = "ready"
    /\ pc' = "gather"
    /\ UNCHANGED <<state, invoked, failed, response>>

\* A stage without the short-circuit.
NeverSkip(experiences) == FALSE

\* Whether a stage short-circuits: `if not experiences`.
NoInput(experiences) == ~ListTruthy(experiences)

\* An except block that would append the trace entry only.
OnlyTraceError(h, st, agent, msg) ==
    AppendTrace(h, st, [agent |-> agent, status |-> "error", error |-> msg])

\* The except block shared by the four LLM stages: one ErrorEntry, then one
\* trace entry with status error, appended to the lists of the stage's dict.
RecordError(h, st, agent, msg) ==
    AppendTrace(AppendError(h, st, ErrorEntry(agent, msg)), st,
                [agent |-> agent, status |-> "error", error |-> msg])

\* A branch that would give up as soon as any stage has recorded an error.
ExperiencesUnlessError(st, h) ==
    IF h[st.errors] # <<>> THEN <<>> ELSE h[st.discovered_experiences]

\* experiences = state.get("discovered_experiences", []), the input of a branch
Experiences(st, h) == h[st.discovered_experiences]

\* What the Generation Service may return for the two branch stages: a JSON
\* object whose key may be absent, mapping item names to annotations.
Annotations(experiences, tag) ==
    {EmptyDict, [nm \in Names(experiences) |-> tag]}

BranchResults(experiences, key, tag) ==
    {EmptyDict} \cup {(key :> a) : a \in Annotations(experiences, tag)}

\* run_cultural_context up to its first suspension (await model.ainvoke), or to
\* its return when it skips or when building the model client fails.
CtxStart ==
    /\ ctx_pc = "ready"
    /\ LET experiences == Experiences(cultural_state, heap)
       IN  IF NoInput(experiences)
           THEN /\ cultural_state' = [cultural_state EXCEPT !.cultural_context = EmptyDict]
                /\ heap' = AppendTrace(heap, cultural_state,
                               [agent |-> "cultural_context", status |-> "skipped",
                                reason |-> "No experiences to contextualize"])
                /\ ctx_pc' = "done"
                /\ UNCHANGED <<invoked, failed>>
           ELSE \/ /\ ctx_pc' = "awaiting"
                   /\ invoked' = [invoked EXCEPT !["cultural_context"] = @ + 1]
                   /\ UNCHANGED failed
                   /\ UNCHANGED <<cultural_state, heap>>
                \/ /\ heap' = RecordError(heap, cultural_state,
                                          "cultural_context", "model_error")
                   /\ cultural_state' =
                        IF ~DictTruthy(cultural_state.cultural_context)
                        THEN [cultural_state EXCEPT !.cultural_context = EmptyDict]
                        ELSE cultural_state
                   /\ ctx_pc' = "done"
                   /\ failed' = failed \cup {"cultural_context"}
                   /\ UNCHANGED invoked
    /\ UNCHANGED <<pc, state, community_state, com_pc, response>>

\* A run_cultural_context that starts over when its call has failed.
CtxResumeRetrying ==
    /\ ctx_pc = "awaiting"
    /\ LET experiences == Experiences(cultural_state, heap)
       IN  \/ \E result \in BranchResults(experiences, "cultural_context", "ctx") :
                LET written == Get(result, "cultural_context", EmptyDict)
                IN  /\ cultural_state' = [cultural_state EXCEPT !.cultural_context = written]
                    /\ heap' = AppendTrace(heap, cultural_state,
                                   [agent |-> "cultural_context", status |-> "success",
                                    contexts_added |-> Cardinality(DOMAIN written)])
                    /\ ctx_pc' = "done"
                    /\ UNCHANGED <<pc, failed>>
           \/ /\ ctx_pc' = "ready"
              /\ failed' = failed \cup {"cultural_context"}
              /\ UNCHANGED <<pc, heap, cultural_state>>
    /\ UNCHANGED <<state, community_state, com_pc, invoked, response>>

\* run_cultural_context from the return of model.ainvoke to its own return.
CtxResume ==
    /\ ctx_pc = "awaiting"
    /\ LET experiences == Experiences(cultural_state, heap)
       IN  \/ \E result \in BranchResults(experiences, "cultural_context", "ctx") :
                LET written == Get(result, "cultural_context", EmptyDict)
                IN  /\ cultural_state' = [cultural_state EXCEPT !.cultural_context = written]
                    /\ heap' = AppendTrace(heap, cultural_state,
                                   [agent |-> "cultural_context", status |-> "success",
                                    contexts_added |-> Cardinality(DOMAIN written)])
                    /\ ctx_pc' = "done"
                    /\ UNCHANGED <<pc, failed>>
           \/ \E outcome \in Failures :
                IF Caught(outcome)
                THEN /\ heap' = RecordError(heap, cultural_state,
                                            "cultural_context", outcome)
                     /\ cultural_state' =
                          IF ~DictTruthy(cultural_state.cultural_context)
                          THEN [cultural_state EXCEPT !.cultural_context = EmptyDict]
                          ELSE cultural_state
                     /\ ctx_pc' = "done"
                     /\ failed' = failed \cup {"cultural_context"}
                     /\ pc' = pc
                ELSE /\ pc' = "raised"
                     /\ failed' = failed \cup {"cultural_context"}
                     /\ ctx_pc' = "done"
                     /\ UNCHANGED <<heap, cultural_state>>
    /\ UNCHANGED <<state, community_state, com_pc, invoked, response>>

\* run_community, likewise.  The event loop starts the tasks in the order
\* gather was given them, so run_community starts after run_cultural_context
\* has reached its first suspension or returned.
ComStart ==
    /\ com_pc = "ready" /\ ctx_pc # "ready"
    /\ LET experiences == Experiences(community_state, heap)
       IN  IF NoInput(experiences)
           THEN /\ community_state' = [community_state EXCEPT !.social_scaffolding = EmptyDict]
                /\ heap' = AppendTrace(heap, community_state,
                               [agent |-> "community", status |-> "skipped",
                                reason |-> "No experiences to analyze"])
                /\ com_pc' = "done"
                /\ UNCHANGED <<invoked, failed>>
           ELSE \/ /\ com_pc' = "awaiting"
                   /\ invoked' = [invoked EXCEPT !["community"] = @ + 1]
                   /\ UNCHANGED failed
                   /\ UNCHANGED <<community_state, heap>>
                \/ /\ heap' = RecordError(heap, community_state,
                                          "community", "model_error")
                   /\ community_state' =
                        IF ~DictTruthy(community_state.social_scaffolding)
                        THEN [community_state EXCEPT !.social_scaffolding = EmptyDict]
                        ELSE community_state
                   /\ com_pc' = "done"
                   /\ failed' = failed \cup {"community"}
                   /\ UNCHANGED invoked
    /\ UNCHANGED <<pc, state, cultural_state, ctx_pc, response>>

ComResume ==
    /\ com_pc = "awaiting"
    /\ LET experiences == Experiences(community_state, heap)
       IN  \/ \E result \in BranchResults(experiences, "social_scaffolding", "social") :
                LET written == Get(result, "social_scaffolding", EmptyDict)
                IN  /\ community_state' = [community_state EXCEPT !.social_scaffolding = written]
                    /\ heap' = AppendTrace(heap, community_state,
                                   [agent |-> "community", status |-> "success",
                                    experiences_analyzed |-> Cardinality(DOMAIN written)])
                    /\ com_pc' = "done"
                    /\ UNCHANGED <<pc, failed>>
           \/ \E outcome \in Failures :
                IF Caught(outcome)
                THEN /\ heap' = RecordError(heap, community_state, "community", outcome)
                     /\ community_state' =
                          IF ~DictTruthy(community_state.social_scaffolding)
                          THEN [community_state EXCEPT !.social_scaffolding = EmptyDict]
                          ELSE community_state
                     /\ com_pc' = "done"
                     /\ failed' = failed \cup {"community"}
                     /\ pc' = pc
                ELSE /\ pc' = "raised"
                     /\ failed' = failed \cup {"community"}
                     /\ com_pc' = "done"
                     /\ UNCHANGED <<heap, community_state>>
    /\ UNCHANGED <<state, cultural_state, ctx_pc, invoked, response>>

\* l[0:], the list without the slice
WholeList(l, n) == l

\* l[n:]
TraceSlice(l, n) == SubSeq(l, n + 1, Len(l))

\* target.extend(added), where `added` was evaluated before the call
Extend(h, target, added) == [h EXCEPT ![target] = @ \o added]

\* What asyncio.wait(..., return_when=FIRST_COMPLETED) would wait for.
EitherReturned == ctx_pc = "done" \/ com_pc = "done"

\* Both tasks have returned: `await asyncio.gather(...)` resumes run_workflow.
BothReturned == ctx_pc = "done" /\ com_pc = "done"

\* A merge that would take the context map only.
MergeContextOnly(st, cultural, community) ==
    [st EXCEPT !.cultural_context = Get(cultural, "cultural_context", EmptyDict)]

\* The two output fields the merge assigns to the canonical state.
MergeOutputs(st, cultural, community) ==
    [st EXCEPT
       !.cultural_context = Get(cultural, "cultural_context", EmptyDict),
       !.social_scaffolding = Get(community, "social_scaffolding", EmptyDict)]

\* The merge of the branch results into the canonical state.
Join ==
    /\ pc = "gather" /\ BothReturned
    /\ LET tr == state.agent_trace
           er == state.errors
           h1 == Extend(heap, tr,
                    TraceSlice(heap[cultural_state.agent_trace], Len(heap[tr])))
           h2 == Extend(h1, tr,
                    TraceSlice(h1[community_state.agent_trace], Len(h1[tr])))
           h3 == Extend(h2, er, h2[cultural_state.errors])
           h4 == Extend(h3, er, h3[community_state.errors])
       IN  /\ state' = MergeOutputs(state, cultural_state, community_state)
           /\ heap' = h4
    /\ pc' = "plot"
    /\ UNCHANGED <<cultural_state, community_state, ctx_pc, com_pc, invoked,
                   failed, response>>

----------------------------------------------------------------------------
\* run_plot_builder

SkippedNarrative == "No experiences found to build a story around. Try a different query!"

\* The except block of run_plot_builder.
PlotExcept(st, h, msg) ==
    [ st   |-> [st EXCEPT
                  !.narrative_itinerary = IF @ = "" THEN "" ELSE @,
                  !.collision_suggestion = IF ~DictTruthy(@) THEN EmptyDict ELSE @],
      heap |-> RecordError(h, st, "plot_builder", msg) ]

\* What the Generation Service may return to run_plot_builder.
PlotResults ==
    { n @@ c : n \in {EmptyDict, [narrative_itinerary |-> "story"]},
               c \in {EmptyDict,
                      [collision_suggestion |-> EmptyDict],
                      [collision_suggestion |-> [title |-> ""]],
                      [collision_suggestion |-> [title |-> "next", why |-> "pairs"]]} }

PlotStart ==
    /\ pc = "plot"
    /\ LET experiences == heap[state.discovered_experiences]
       IN  IF NoInput(experiences)
           THEN /\ state' = [state EXCEPT !.narrative_itinerary = SkippedNarrative]
                /\ heap' = AppendTrace(heap, state,
                               [agent |-> "plot_builder", status |-> "skipped",
                                reason |-> "No experiences available"])
                /\ pc' = "budget"
                /\ UNCHANGED <<invoked, failed>>
           ELSE \/ /\ pc' = "plot_await"
                   /\ invoked' = [invoked EXCEPT !["plot_builder"] = @ + 1]
                   /\ UNCHANGED failed
                   /\ UNCHANGED <<state, heap>>
                \/ /\ state' = PlotExcept(state, heap, "model_error").st
                   /\ heap' = PlotExcept(state, heap, "model_error").heap
                   /\ pc' = "budget"
                   /\ failed' = failed \cup {"plot_builder"}
                   /\ UNCHANGED invoked
    /\ UNCHANGED <<cultural_state, community_state, ctx_pc, com_pc, response>>

PlotResume ==
    /\ pc = "plot_await"
    /\ \/ \E result \in PlotResults :
            LET narrative == Get(result, "narrative_itinerary", "")
                collision == Get(result, "collision_suggestion", EmptyDict)
            IN  /\ state' = [state EXCEPT !.narrative_itinerary = narrative,
                                          !.collision_suggestion = collision]
                /\ heap' = AppendTrace(heap, state,
                               [agent |-> "plot_builder", status |-> "success",
                                has_collision |-> DictTruthy(collision)])
                /\ pc' = "budget"
                /\ UNCHANGED failed
       \/ \E outcome \in Failures :
            IF Caught(outcome)
            THEN /\ state' = PlotExcept(state, heap, outcome).st
                 /\ heap' = PlotExcept(state, heap, outcome).heap
                 /\ failed' = failed \cup {"plot_builder"}
                 /\ pc' = "budget"
            ELSE /\ pc' = "raised"
                 /\ failed' = failed \cup {"plot_builder"}
                 /\ UNCHANGED <<state, heap>>
    /\ UNCHANGED <<cultural_state, community_state, ctx_pc, com_pc, invoked, response>>

----------------------------------------------------------------------------
\* run_budget_optimizer

\* A short-circuit that would leave budget_breakdown as created.
UnsetBreakdown == EmptyDict

\* The breakdown run_budget_optimizer stores when it short-circuits.
SkippedBreakdown ==
    [total_estimate |-> 0, breakdown |-> <<>>, deals |-> <<>>, within_budget |-> TRUE]

\* What the Generation Service may return to run_budget_optimizer: the
\* budget_breakdown key may be absent, and so may each key of the breakdown.
LLMBreakdowns ==
    { t @@ w @@ p :
        t \in {EmptyDict} \cup {[total_estimate |-> x] : x \in 0..MaxTotal},
        w \in {EmptyDict} \cup {[within_budget |-> b] : b \in BOOLEAN},
        p \in {EmptyDict, [tips |-> <<"tip">>]} }

BudgetResults == {EmptyDict} \cup {[budget_breakdown |-> b] : b \in LLMBreakdowns}

\* The flag as the Generation Service reported it.
TrustLLM(total_estimate, budget_max, reported) == reported

\* actual_within_budget = total_estimate <= budget_max
ActualWithinBudget(total_estimate, budget_max, reported) == total_estimate <= budget_max

\* The post-processing of the reported breakdown.
Validated(budget_breakdown, budget_max) ==
    LET total_estimate == Get(budget_breakdown, "total_estimate", 0)
        actual_within_budget ==
            ActualWithinBudget(total_estimate, budget_max,
                               Get(budget_breakdown, "within_budget", TRUE))
        overage_tip == [tips |-> <<"over_budget">> \o Get(budget_breakdown, "tips", <<>>)]
    IN  IF \/ "within_budget" \notin DOMAIN budget_breakdown
           \/ budget_breakdown.within_budget # actual_within_budget
        THEN IF ~actual_within_budget
             THEN overage_tip @@ [within_budget |-> actual_within_budget] @@ budget_breakdown
             ELSE [within_budget |-> actual_within_budget] @@ budget_breakdown
        ELSE budget_breakdown

\* The except block of run_budget_optimizer.
BudgetExcept(st, h, msg) ==
    [ st   |-> [st EXCEPT !.budget_breakdown = IF ~DictTruthy(@) THEN EmptyDict ELSE @],
      heap |-> RecordError(h, st, "budget", msg) ]

BudgetStart ==
    /\ pc = "budget"
    /\ LET experiences == heap[state.discovered_experiences]
       IN  IF NoInput(experiences)
           THEN /\ state' = [state EXCEPT !.budget_breakdown = SkippedBreakdown]
                /\ heap' = AppendTrace(heap, state,
                               [agent |-> "budget", status |-> "skipped",
                                reason |-> "No experiences to price"])
                /\ pc' = "finalize"
                /\ UNCHANGED <<invoked, failed>>
           ELSE \/ /\ pc' = "budget_await"
                   /\ invoked' = [invoked EXCEPT !["budget"] = @ + 1]
                   /\ UNCHANGED failed
                   /\ UNCHANGED <<state, heap>>
                \/ /\ state' = BudgetExcept(state, heap, "model_error").st
                   /\ heap' = BudgetExcept(state, heap, "model_error").heap
                   /\ pc' = "finalize"
                   /\ failed' = failed \cup {"budget"}
                   /\ UNCHANGED invoked
    /\ UNCHANGED <<cultural_state, community_state, ctx_pc, com_pc, response>>

BudgetResume ==
    /\ pc = "budget_await"
    /\ \/ \E result \in BudgetResults :
            LET budget_max == state.budget_range[2]
                budget_breakdown ==
                    Validated(Get(result, "budget_breakdown", EmptyDict), budget_max)
            IN  /\ state' = [state EXCEPT !.budget_breakdown = budget_breakdown]
                /\ heap' = AppendTrace(heap, state,
                               [agent |-> "budget", status |-> "success",
                                budget_max |-> budget_max,
                                within_budget |-> budget_breakdown.within_budget])
                /\ pc' = "finalize"
                /\ UNCHANGED failed
       \/ \E outcome \in Failures :
            IF Caught(outcome)
            THEN /\ state' = BudgetExcept(state, heap, outcome).st
                 /\ heap' = BudgetExcept(state, heap, outcome).heap
                 /\ failed' = failed \cup {"budget"}
                 /\ pc' = "finalize"
            ELSE /\ pc' = "raised"
                 /\ failed' = failed \cup {"budget"}
                 /\ UNCHANGED <<state, heap>>
    /\ UNCHANGED <<cultural_state, community_state, ctx_pc, com_pc, invoked, response>>

----------------------------------------------------------------------------
\* The end of run_workflow

\* A count that takes the coordinator's own entries along.
CountStatusOrCoordinator(trace, status) ==
    Cardinality({i \in 1..Len(trace) :
                     trace[i].status = status \/ trace[i].agent = "coordinator"})

\* sum(1 for t in state["agent_trace"] if t.get("status") == status)
CountStatus(trace, status) ==
    Cardinality({i \in 1..Len(trace) : trace[i].status = status})

\* A projection that keeps every non-empty suggestion, titled or not.
StateToResponseUntitled(st, h) ==
    LET budget    == Get(st, "budget_breakdown", EmptyDict)
        collision == Get(st, "collision_suggestion", EmptyDict)
        found     == h[st.discovered_experiences]
    IN  [ narrative_itinerary  |-> Get(st, "narrative_itinerary", ""),
          experiences          |-> [i \in 1..Len(found) |->
                                      [name     |-> Get(found[i], "name", ""),
                                       category |-> Get(found[i], "category", "")]],
          cultural_context     |-> Get(st, "cultural_context", EmptyDict),
          budget_breakdown     |->
              IF DictTruthy(budget)
              THEN [total_estimate |-> Get(budget, "total_estimate", 0),
                    breakdown      |-> Get(budget, "breakdown", <<>>),
                    deals          |-> Get(budget, "deals", <<>>),
                    within_budget  |-> Get(budget, "within_budget", TRUE)]
              ELSE None,
          social_scaffolding   |-> Get(st, "social_scaffolding", EmptyDict),
          collision_suggestion |->
              IF DictTruthy(collision)
              THEN [title       |-> Get(collision, "title", ""),
                    experiences |-> Get(collision, "experiences", <<>>),
                    why         |-> Get(collision, "why", "")]
              ELSE None,
          agent_trace          |-> h[st.agent_trace],
          session_id           |-> Get(st, "session_id", "") ]

\* _state_to_response
StateToResponse(st, h) ==
    LET budget    == Get(st, "budget_breakdown", EmptyDict)
        collision == Get(st, "collision_suggestion", EmptyDict)
        found     == h[st.discovered_experiences]
    IN  [ narrative_itinerary  |-> Get(st, "narrative_itinerary", ""),
          experiences          |-> [i \in 1..Len(found) |->
                                      [name     |-> Get(found[i], "name", ""),
                                       category |-> Get(found[i], "category", "")]],
          cultural_context     |-> Get(st, "cultural_context", EmptyDict),
          budget_breakdown     |->
              IF DictTruthy(budget)
              THEN [total_estimate |-> Get(budget, "total_estimate", 0),
                    breakdown      |-> Get(budget, "breakdown", <<>>),
                    deals          |-> Get(budget, "deals", <<>>),
                    within_budget  |-> Get(budget, "within_budget", TRUE)]
              ELSE None,
          social_scaffolding   |-> Get(st, "social_scaffolding", EmptyDict),
          collision_suggestion |->
              IF DictTruthy(collision) /\ Get(collision, "title", "") # ""
              THEN [title       |-> Get(collision, "title", ""),
                    experiences |-> Get(collision, "experiences", <<>>),
                    why         |-> Get(collision, "why", "")]
              ELSE None,
          agent_trace          |-> h[st.agent_trace],
          session_id           |-> Get(st, "session_id", "") ]

Finalize ==
    /\ pc = "finalize"
    /\ LET trace == heap[state.agent_trace]
           h1 == AppendTrace(heap, state,
                    [agent |-> "coordinator", status |-> "completed",
                     agents_succeeded |-> CountStatus(trace, "success"),
                     agents_failed |-> CountStatus(trace, "error")])
       IN  /\ heap' = h1
           /\ response' = StateToResponse(state, h1)
    /\ pc' = "done"
    /\ UNCHANGED <<state, cultural_state, community_state, ctx_pc, com_pc,
                   invoked, failed>>

Next ==
    \/ Start /\ UNCHANGED <<cache_vars, source_vars>>
    \/ Discovery /\ UNCHANGED <<cache_vars, source_vars>>
    \/ Fork /\ UNCHANGED <<cache_vars, source_vars>>
    \/ CtxStart /\ UNCHANGED <<cache_vars, source_vars>>
    \/ CtxResume /\ UNCHANGED <<cache_vars, source_vars>>
    \/ ComStart /\ UNCHANGED <<cache_vars, source_vars>>
    \/ ComResume /\ UNCHANGED <<cache_vars, source_vars>>
    \/ Join /\ UNCHANGED <<cache_vars, source_vars>>
    \/ PlotStart /\ UNCHANGED <<cache_vars, source_vars>>
    \/ PlotResume /\ UNCHANGED <<cache_vars, source_vars>>
    \/ BudgetStart /\ UNCHANGED <<cache_vars, source_vars>>
    \/ BudgetResume /\ UNCHANGED <<cache_vars, source_vars>>
    \/ Finalize /\ UNCHANGED <<cache_vars, source_vars>>

Spec == Init /\ [][Next]_vars

\* The steps run_workflow and its two tasks take by themselves: the event
\* loop runs a coroutine that is ready. The return of a Generation Service
\* call is not among them: no call is given a timeout (model.ainvoke(messages)
\* and model.generate_content(...) are called without one, and nothing wraps
\* them in asyncio.wait_for), so nothing in the program makes a call return.
MainStep ==
    (Start \/ Fork \/ Join \/ PlotStart \/ BudgetStart \/ Finalize)
        /\ UNCHANGED <<cache_vars, source_vars>>

RunFairness ==
    /\ WF_vars(MainStep)
    /\ WF_vars(CtxStart /\ UNCHANGED <<cache_vars, source_vars>>)
    /\ WF_vars(ComStart /\ UNCHANGED <<cache_vars, source_vars>>)

RunLiveSpec == Init /\ [][Next]_vars /\ RunFairness

----------------------------------------------------------------------------
\* What the properties below read

Trace == heap[state.agent_trace]

Errors == heap[state.errors]

Found == heap[state.discovered_experiences]

ListFields == {"agent_trace", "errors", "discovered_experiences"}

\* A dict as its holder observes it: the contents of the lists it refers to,
\* and its other fields.
View(st, h) == [f \in DOMAIN st |-> IF f \in ListFields THEN h[st[f]] ELSE st[f]]

EntriesOf(l, agent) == {i \in 1..Len(l) : l[i].agent = agent}

AfterJoin == {"plot", "plot_await", "budget", "budget_await", "finalize", "done"}

CtxStep == ctx_pc \in {"ready", "awaiting"} /\ ctx_pc' # ctx_pc

ComStep == com_pc \in {"ready", "awaiting"} /\ com_pc' # com_pc

\* The output fields of a stage hold the values they had at state creation.
ZeroOutput(s, st, h) ==
    CASE s = "discovery"        -> h[st.discovered_experiences] = <<>>
      [] s = "cultural_context" -> st.cultural_context = EmptyDict
      [] s = "community"        -> st.social_scaffolding = EmptyDict
      [] s = "plot_builder"     -> /\ st.narrative_itinerary = ""
                                   /\ st.collision_suggestion = EmptyDict
      [] OTHER                  -> st.budget_breakdown = EmptyDict

StatusOf(s) == {Trace[i].status : i \in EntriesOf(Trace, s)}

----------------------------------------------------------------------------
\* C1: after the join the canonical error list holds exactly one ErrorEntry for
\* each stage whose call has failed so far and no other entry (nothing
\* duplicated, nothing dropped).
C1_JoinErrorsExact ==
    pc \in AfterJoin =>
        \A s \in Stages :
            Cardinality(EntriesOf(Errors, s)) = IF s \in failed THEN 1 ELSE 0

\* C2: the trace never holds two entries of one stage, and the final trace
\* holds exactly one entry for each of the five stage names, whatever the
\* outcomes of the stages and the interleaving of the two branches.
C2_OneTraceEntryPerStage ==
    /\ \A s \in Stages : Cardinality(EntriesOf(Trace, s)) <= 1
    /\ pc = "done" =>
          /\ \A s \in Stages : Cardinality(EntriesOf(Trace, s)) = 1
          /\ \A s \in Stages : Cardinality(EntriesOf(response.agent_trace, s)) = 1

\* A finished run in which run_community returned before run_cultural_context,
\* one branch failed and the other succeeded.
C2_Witness ==
    /\ pc = "done"
    /\ \E i, j \in 1..Len(Trace) :
          /\ i < j
          /\ Trace[i].agent = "community" /\ Trace[i].status = "success"
          /\ Trace[j].agent = "cultural_context" /\ Trace[j].status = "error"

\* C3: branch isolation: a step of one branch never changes anything the other
\* branch observes through its own copy of the state, and vice versa.
C3_BranchIsolation ==
    [][ /\ CtxStep => View(community_state', heap') = View(community_state, heap)
        /\ ComStep => View(cultural_state', heap') = View(cultural_state, heap) ]_vars

\* C4: between the fork and the join nothing a branch does changes the
\* canonical state: its trace list, its error list and its output fields keep
\* the values they had when the copies were taken.
C4_CanonicalUntouched ==
    [][ (pc = "gather" /\ pc' = "gather") =>
            View(state', heap') = View(state, heap) ]_vars

\* C5: the stages are strictly ordered: Discovery has completed and its items
\* are in the canonical state before either branch starts, both branches have
\* returned and are merged before plot_builder starts, and plot_builder has
\* completed before budget starts.
Rank(e) ==
    CASE e.agent = "coordinator" /\ e.status = "started" -> 0
      [] e.agent = "discovery"                            -> 1
      [] e.agent \in {"cultural_context", "community"}    -> 2
      [] e.agent = "plot_builder"                         -> 3
      [] e.agent = "budget"                               -> 4
      [] OTHER                                            -> 5

BranchStarted ==
    \/ ctx_pc \in {"awaiting", "done"}
    \/ com_pc \in {"awaiting", "done"}

PlotStarted ==
    \/ pc \in {"plot_await", "budget", "budget_await", "finalize", "done"}
    \/ invoked["plot_builder"] > 0
    \/ EntriesOf(Trace, "plot_builder") # {}

BudgetStarted ==
    \/ pc \in {"budget_await", "finalize", "done"}
    \/ invoked["budget"] > 0
    \/ EntriesOf(Trace, "budget") # {}

C5_StageOrder ==
    /\ \A i, j \in 1..Len(Trace) : i < j => Rank(Trace[i]) <= Rank(Trace[j])
    /\ BranchStarted =>
          /\ invoked["discovery"] = 1
          /\ EntriesOf(Trace, "discovery") # {}
          /\ state.discovered_experiences = <<"discovery_result", "state">>
    /\ PlotStarted =>
          /\ ctx_pc = "done" /\ com_pc = "done"
          /\ EntriesOf(Trace, "cultural_context") # {}
          /\ EntriesOf(Trace, "community") # {}
          /\ state.cultural_context = cultural_state.cultural_context
          /\ state.social_scaffolding = community_state.social_scaffolding
    /\ BudgetStarted =>
          /\ pc # "plot_await"
          /\ EntriesOf(Trace, "plot_builder") # {}

\* A finished run in which every stage called the Generation Service.
C5_Witness == pc = "done" /\ \A s \in Stages : invoked[s] = 1

\* C6: budget authority: every cost breakdown a run produces, in the state and
\* in the response, has within_budget = (total_estimate <= budget_max).
C6_BudgetAuthority ==
    LET budget == state.budget_breakdown
        budget_max == state.budget_range[2]
    IN  /\ DictTruthy(budget) =>
              Get(budget, "within_budget", TRUE)
                  = (Get(budget, "total_estimate", 0) <= budget_max)
        /\ (pc = "done" /\ response.budget_breakdown # None) =>
              response.budget_breakdown.within_budget
                  = (response.budget_breakdown.total_estimate <= budget_max)

StageDictNext(s) ==
    CASE s = "cultural_context" -> cultural_state'
      [] s = "community"        -> community_state'
      [] OTHER                  -> state'

C8_FailingStep ==
    \A s \in Stages :
        (s \in failed' /\ s \notin failed) =>
            LET st == StageDictNext(s)
                t0 == heap[st.agent_trace]
                t1 == heap'[st.agent_trace]
                e0 == heap[st.errors]
                e1 == heap'[st.errors]
            IN  /\ ZeroOutput(s, st, heap')
                /\ Len(t1) = Len(t0) + 1
                /\ SubSeq(t1, 1, Len(t0)) = t0
                /\ t1[Len(t1)].agent = s /\ t1[Len(t1)].status = "error"
                /\ Len(e1) = Len(e0) + 1
                /\ SubSeq(e1, 1, Len(e0)) = e0
                /\ e1[Len(e1)].agent = s

C8_Final ==
    pc = "done" =>
        /\ \A s \in failed :
              /\ ZeroOutput(s, state, heap)
              /\ StatusOf(s) = {"error"}
              /\ EntriesOf(Errors, s) # {}
        /\ \A s \in Stages : Cardinality(EntriesOf(Trace, s)) = 1

C8_FailureDegrades == [][C8_FailingStep]_vars /\ []C8_Final

\* A finished run in which run_cultural_context failed and the later stages
\* plot_builder and budget succeeded.
C8_Witness ==
    /\ pc = "done"
    /\ failed = {"cultural_context"}
    /\ StatusOf("plot_builder") = {"success"}
    /\ StatusOf("budget") = {"success"}

PlaceholderNarrative ==
    "No experiences found to build a story around. Try a different query!"

ZeroCostBreakdown ==
    [total_estimate |-> 0, breakdown |-> <<>>, deals |-> <<>>,
     within_budget |-> TRUE]

C10_NoCallOnEmptyInput ==
    (pc \notin {"start", "discovery"} /\ Found = <<>>) =>
        /\ invoked["discovery"] = 1
        /\ \A s \in Stages \ {"discovery"} : invoked[s] = 0

\* A finished run whose Discovery call failed, so that no items were found.
C10_Witness ==
    /\ pc = "done"
    /\ Found = <<>>
    /\ failed = {"discovery"}

\* C11: one branch's outcome does not affect the other.  A step of
\* run_cultural_context changes neither the items run_community reads nor the
\* scaffolding map of its copy nor its position, and symmetrically; a branch
\* skips exactly when Discovery found nothing, whatever the other branch did;
\* the map a branch has written is one the Generation Service may return for
\* the discovered items; and the maps merged into the canonical state are the
\* ones the branches wrote.
C11_Step ==
    /\ CtxStep =>
          /\ Experiences(community_state', heap') = Experiences(community_state, heap)
          /\ community_state'.social_scaffolding = community_state.social_scaffolding
          /\ com_pc' = com_pc
    /\ ComStep =>
          /\ Experiences(cultural_state', heap') = Experiences(cultural_state, heap)
          /\ cultural_state'.cultural_context = cultural_state.cultural_context
          /\ ctx_pc' = ctx_pc

C11_Outcome ==
    /\ com_pc = "done" =>
          /\ (StatusOf("community") = {"skipped"}) <=> (Found = <<>>)
          /\ community_state.social_scaffolding \in Annotations(Found, "social")
    /\ ctx_pc = "done" =>
          /\ (StatusOf("cultural_context") = {"skipped"}) <=> (Found = <<>>)
          /\ cultural_state.cultural_context \in Annotations(Found, "ctx")
    /\ pc \in AfterJoin =>
          /\ state.social_scaffolding = community_state.social_scaffolding
          /\ state.cultural_context = cultural_state.cultural_context

C11_BranchIndependence == [][C11_Step]_vars /\ []C11_Outcome

\* A finished run in which run_cultural_context failed and the scaffolding map
\* run_community wrote for the discovered items was merged.
C11_Witness ==
    /\ pc = "done"
    /\ "cultural_context" \in failed
    /\ "community" \notin failed
    /\ DictTruthy(state.social_scaffolding)
    /\ state.cultural_context = EmptyDict

\* C12: the join assigns to the canonical state the context map of
\* run_cultural_context's copy and the scaffolding map of run_community's copy,
\* for every combination of branch outcomes, and changes no other output
\* field: discovered items, narrative, cost breakdown and cross-suggestion keep
\* their values.
C12_JoinStep ==
    (pc = "gather" /\ pc' = "plot") =>
        /\ state'.cultural_context = cultural_state.cultural_context
        /\ state'.social_scaffolding = community_state.social_scaffolding
        /\ state'.discovered_experiences = state.discovered_experiences
        /\ heap'[state'.discovered_experiences] = heap[state.discovered_experiences]
        /\ state'.narrative_itinerary = state.narrative_itinerary
        /\ state'.budget_breakdown = state.budget_breakdown
        /\ state'.collision_suggestion = state.collision_suggestion

C12_MergeOwnedOutputs == [][C12_JoinStep]_vars

\* The state after a join in which both branches had written a non-empty map.
C12_Witness ==
    /\ pc = "plot"
    /\ DictTruthy(state.cultural_context)
    /\ DictTruthy(state.social_scaffolding)
    /\ state.cultural_context # state.social_scaffolding

----------------------------------------------------------------------------
\* ExperienceCache (backend/services/experience_cache.py)

\* Cache TTL in seconds (10 minutes)
CACHE_TTL_SECONDS == 10 * 60

\* Background refresh interval (10 minutes)
REFRESH_INTERVAL_SECONDS == 10 * 60

\* The clock is observed every half TTL.
ClockStep == CACHE_TTL_SECONDS \div 2

\* str.lower() and str.strip() on the strings that occur.
Lower(s) ==
    CASE s = "Bangalore" -> "bangalore"
      [] s = "Mysore"    -> "mysore"
      [] s = "Food"      -> "food"
      [] s = "Art"       -> "art"
      [] s = " Food"     -> " food"
      [] OTHER           -> s

Strip(s) ==
    CASE s = " food" -> "food"
      [] s = " Food" -> "Food"
      [] OTHER       -> s

\* The arguments callers pass.  No category is the empty string: None and ""
\* are both false in `if category`.
CityArgs == {"Bangalore"}

CategoryArgs == {"", "Food"}

WideCategoryArgs == {"", "Food", " Food", "Art"}

Categories(c) == IF c \in SoloCallers THEN WideCategoryArgs ELSE CategoryArgs

Cafe == [name |-> "cafe", category |-> "Food"]

Gallery == [name |-> "gallery", category |-> "art"]

\* The lists fetcher.fetch_all(city) may return.  None is empty: the mock
\* sources and the curated list of the travel guides always contribute.  The
\* call may also raise.
FetchLists == {<<Gallery>>, <<Cafe, Gallery>>}

\* The lists callers pass to set.
SetArgs == {<<Gallery>>}

\* A key that would leave the category out.
make_key_city_only(city, category) == Strip(Lower(city))

\* _make_key
make_key(city, category) ==
    LET key == Strip(Lower(city))
    IN  IF category # "" THEN key \o ":" \o Strip(Lower(category)) ELSE key

\* An entry whose expiry would be its creation time.
CacheEntryWithoutTTL(data, created_at) ==
    [data |-> data, created_at |-> created_at, expires_at |-> created_at]

\* CacheEntry(data=...): created_at is the time of construction and
\* __post_init__ sets expires_at.
CacheEntry(data, created_at) ==
    [ data       |-> data,
      created_at |-> created_at,
      expires_at |-> created_at + CACHE_TTL_SECONDS ]

\* An entry that would never expire.
never_expired(entry, t) == FALSE

\* An entry that would expire as soon as it is older than its creation.
expired_by_age(entry, t) == t > entry.created_at

\* CacheEntry.is_expired at time t
is_expired(entry, t) == t > entry.expires_at

\* The category filter of get_or_fetch.
MatchesCategory(exp, category) ==
    Lower(Get(exp, "category", "")) = Lower(category)

Filtered(experiences, category) ==
    LET keep(exp) == MatchesCategory(exp, category)
    IN  SelectSeq(experiences, keep)

\* A method returns r to its caller.  What stays of the call is its name, the
\* number of aggregator calls it made, and r.
Return(l, r) ==
    [Locals("idle") EXCEPT !.ret = r, !.op = l.op, !.calls = l.calls]

Call(op, city, category) ==
    [Locals("idle") EXCEPT !.op = op, !.city = city, !.category = category]

\* Whose returned list is still the list object of an entry, after a thread
\* begins a new call and after the entry of a key is replaced or removed.
Dropped(c) == {p \in shared : p[1] # c}

Replaced(key) == {p \in shared : p[2] # key}

\* datetime.now() advances.
Tick ==
    /\ now < MaxTicks * ClockStep
    /\ now' = now + ClockStep
    /\ UNCHANGED <<cache, lock, refresh_thread, stop_refresh, thread, shared>>

\* get(city, category, force_refresh): the call, up to `with self._lock`.
get(c) ==
    /\ thread[c].pc = "idle"
    /\ lock = NoThread
    /\ \E city \in CityArgs, category \in Categories(c), force_refresh \in BOOLEAN :
          thread' = [thread EXCEPT ![c] =
              [Call("get", city, category) EXCEPT
                  !.pc = "get_locked", !.force_refresh = force_refresh]]
    /\ lock' = c
    /\ shared' = Dropped(c)
    /\ UNCHANGED <<cache, refresh_thread, stop_refresh, now>>

\* get_or_fetch(city, category): the call, up to the lock of self.get.
get_or_fetch(c) ==
    /\ thread[c].pc = "idle"
    /\ lock = NoThread
    /\ \E city \in CityArgs, category \in Categories(c) :
          thread' = [thread EXCEPT ![c] =
              [Call("get_or_fetch", city, category) EXCEPT !.pc = "get_locked"]]
    /\ lock' = c
    /\ shared' = Dropped(c)
    /\ UNCHANGED <<cache, refresh_thread, stop_refresh, now>>

\* The body of `with self._lock` in get, and what its caller does with the
\* result: get returns it; get_or_fetch returns a hit and goes on to fetch on
\* a miss.
get_locked(c) ==
    /\ thread[c].pc = "get_locked"
    /\ LET l == thread[c]
           entry == Get(cache, make_key(l.city, l.category), None)
           miss == entry = None \/ is_expired(entry, now) \/ l.force_refresh
       IN  thread' = [thread EXCEPT ![c] =
              IF ~miss THEN Return(l, ReturnedItems(entry.data))
              ELSE IF l.op = "get" THEN Return(l, ReturnedNone)
              ELSE [l EXCEPT !.pc = "fetch"]]
    /\ lock' = NoThread
    /\ LET l == thread[c]
           key == make_key(l.city, l.category)
           entry == Get(cache, key, None)
           miss == entry = None \/ is_expired(entry, now) \/ l.force_refresh
       IN  shared' = IF miss THEN shared ELSE shared \cup {<<c, key>>}
    /\ UNCHANGED <<cache, refresh_thread, stop_refresh, now>>

\* A get_or_fetch that would catch a failed fetch and cache an empty list.
fetch_caching_failure(c) ==
    /\ thread[c].pc = "fetch"
    /\ thread[c].op = "get_or_fetch"
    /\ LET l == thread[c]
       IN  \/ \E fetched \in FetchLists :
                thread' = [thread EXCEPT ![c] =
                    [l EXCEPT !.pc = "set",
                              !.calls = @ + 1,
                              !.fetched = fetched,
                              !.experiences = IF l.category # ""
                                              THEN Filtered(fetched, l.category)
                                              ELSE fetched]]
           \/ thread' = [thread EXCEPT ![c] =
                    [l EXCEPT !.pc = "set", !.experiences = <<>>]]
    /\ UNCHANGED <<cache, lock, refresh_thread, stop_refresh, now, shared>>

\* get_or_fetch after a miss: self._get_fetcher(), fetcher.fetch_all(city)
\* and the category filter.  An exception of either propagates to the caller.
fetch(c) ==
    /\ thread[c].pc = "fetch"
    /\ thread[c].op = "get_or_fetch"
    /\ LET l == thread[c]
       IN  \/ \E fetched \in FetchLists :
                thread' = [thread EXCEPT ![c] =
                    [l EXCEPT !.pc = "set",
                              !.calls = @ + 1,
                              !.fetched = fetched,
                              !.experiences = IF l.category # ""
                                              THEN Filtered(fetched, l.category)
                                              ELSE fetched]]
           \/ thread' = [thread EXCEPT ![c] = Return(l, Raised)]
    /\ UNCHANGED <<cache, lock, refresh_thread, stop_refresh, now, shared>>

\* set(city, experiences, category): the call, up to `with self._lock`.
set(c) ==
    /\ thread[c].pc = "idle"
    /\ lock = NoThread
    /\ \E city \in CityArgs, category \in Categories(c), experiences \in SetArgs :
          thread' = [thread EXCEPT ![c] =
              [Call("set", city, category) EXCEPT
                  !.pc = "set_locked", !.experiences = experiences]]
    /\ lock' = c
    /\ shared' = Dropped(c)
    /\ UNCHANGED <<cache, refresh_thread, stop_refresh, now>>

\* A set that would enter its body without taking the lock.
set_without_lock(t) ==
    /\ thread[t].pc = "set"
    /\ thread' = [thread EXCEPT ![t].pc = "set_locked"]
    /\ UNCHANGED <<cache, lock, refresh_thread, stop_refresh, now, shared>>

\* self.set(...) called by get_or_fetch or by refresh_loop takes the lock.
set_acquire(t) ==
    /\ thread[t].pc = "set"
    /\ lock = NoThread
    /\ thread' = [thread EXCEPT ![t].pc = "set_locked"]
    /\ lock' = t
    /\ UNCHANGED <<cache, refresh_thread, stop_refresh, now, shared>>

\* A set that would keep the entry a key already has.
set_locked_keeping(t) ==
    /\ thread[t].pc = "set_locked"
    /\ LET l == thread[t]
           key == make_key(l.city, l.category)
       IN  /\ cache' = cache @@ (key :> CacheEntry(l.experiences, now))
           /\ thread' = [thread EXCEPT ![t] = Return(l, ReturnedItems(l.experiences))]
    /\ lock' = NoThread
    /\ LET l == thread[t]
           key == make_key(l.city, l.category)
       IN  shared' = Replaced(key) \cup
                         (IF l.op = "get_or_fetch" THEN {<<t, key>>} ELSE {})
    /\ UNCHANGED <<refresh_thread, stop_refresh, now>>

\* A set that would add the new items to the ones the entry already holds.
set_locked_merging(t) ==
    /\ thread[t].pc = "set_locked"
    /\ LET l == thread[t]
           key == make_key(l.city, l.category)
           held == IF key \in DOMAIN cache THEN cache[key].data ELSE <<>>
       IN  /\ cache' = (key :> CacheEntry(held \o l.experiences, now)) @@ cache
           /\ thread' = [thread EXCEPT ![t] = Return(l, ReturnedItems(l.experiences))]
    /\ lock' = NoThread
    /\ LET l == thread[t]
           key == make_key(l.city, l.category)
       IN  shared' = Replaced(key) \cup
                         (IF l.op = "get_or_fetch" THEN {<<t, key>>} ELSE {})
    /\ UNCHANGED <<refresh_thread, stop_refresh, now>>

\* The body of `with self._lock` in set, and what its caller does next: set
\* returns None, get_or_fetch returns the list it stored, refresh_loop goes
\* on with the next city.
set_locked(t) ==
    /\ thread[t].pc = "set_locked"
    /\ LET l == thread[t]
       IN  /\ cache' = (make_key(l.city, l.category)
                            :> CacheEntry(l.experiences, now)) @@ cache
           /\ thread' = [thread EXCEPT ![t] =
                 CASE l.op = "set"          -> Return(l, ReturnedNone)
                   [] l.op = "get_or_fetch" -> Return(l, ReturnedItems(l.experiences))
                   [] OTHER -> [l EXCEPT !.pc = "city", !.idx = @ + 1,
                                         !.experiences = <<>>]]
    /\ lock' = NoThread
    /\ LET l == thread[t]
           key == make_key(l.city, l.category)
       IN  shared' = Replaced(key) \cup
                         (IF l.op = "get_or_fetch" THEN {<<t, key>>} ELSE {})
    /\ UNCHANGED <<refresh_thread, stop_refresh, now>>

\* invalidate(city, category)
invalidate(c) ==
    /\ thread[c].pc = "idle"
    /\ lock = NoThread
    /\ \E city \in CityArgs, category \in Categories(c) :
          thread' = [thread EXCEPT ![c] =
              [Call("invalidate", city, category) EXCEPT !.pc = "invalidate_locked"]]
    /\ lock' = c
    /\ shared' = Dropped(c)
    /\ UNCHANGED <<cache, refresh_thread, stop_refresh, now>>

\* An invalidate that would drop every entry.
invalidate_locked_all(c) ==
    /\ thread[c].pc = "invalidate_locked"
    /\ cache' = EmptyDict
    /\ thread' = [thread EXCEPT ![c] = Return(thread[c], ReturnedNone)]
    /\ lock' = NoThread
    /\ shared' = {}
    /\ UNCHANGED <<refresh_thread, stop_refresh, now>>

invalidate_locked(c) ==
    /\ thread[c].pc = "invalidate_locked"
    /\ LET key == make_key(thread[c].city, thread[c].category)
       IN  cache' = [k \in DOMAIN cache \ {key} |-> cache[k]]
    /\ thread' = [thread EXCEPT ![c] = Return(thread[c], ReturnedNone)]
    /\ lock' = NoThread
    /\ shared' = Replaced(make_key(thread[c].city, thread[c].category))
    /\ UNCHANGED <<refresh_thread, stop_refresh, now>>

\* invalidate_all()
invalidate_all(c) ==
    /\ thread[c].pc = "idle"
    /\ lock = NoThread
    /\ thread' = [thread EXCEPT ![c] =
          [Call("invalidate_all", "", "") EXCEPT !.pc = "invalidate_all_locked"]]
    /\ lock' = c
    /\ shared' = Dropped(c)
    /\ UNCHANGED <<cache, refresh_thread, stop_refresh, now>>

invalidate_all_locked(c) ==
    /\ thread[c].pc = "invalidate_all_locked"
    /\ cache' = EmptyDict
    /\ thread' = [thread EXCEPT ![c] = Return(thread[c], ReturnedNone)]
    /\ lock' = NoThread
    /\ shared' = {}
    /\ UNCHANGED <<refresh_thread, stop_refresh, now>>

\* get_stats()
get_stats(c) ==
    /\ thread[c].pc = "idle"
    /\ lock = NoThread
    /\ thread' = [thread EXCEPT ![c] =
          [Call("get_stats", "", "") EXCEPT !.pc = "get_stats_locked"]]
    /\ lock' = c
    /\ shared' = Dropped(c)
    /\ UNCHANGED <<cache, refresh_thread, stop_refresh, now>>

get_stats_locked(c) ==
    /\ thread[c].pc = "get_stats_locked"
    /\ LET expired == {k \in DOMAIN cache : is_expired(cache[k], now)}
       IN  thread' = [thread EXCEPT ![c] = Return(thread[c],
              [ kind            |-> "stats",
                total_entries   |-> Cardinality(DOMAIN cache),
                expired_entries |-> Cardinality(expired),
                valid_entries   |-> Cardinality(DOMAIN cache) - Cardinality(expired),
                keys            |-> DOMAIN cache ])]
    /\ lock' = NoThread
    /\ UNCHANGED <<cache, refresh_thread, stop_refresh, now, shared>>

\* A caller changes the list it was returned, here by items.pop(0).  get
\* returns entry.data and get_or_fetch returns the list it has stored, so the
\* list may be the one an entry holds and the one other callers were returned.
mutate(c) ==
    /\ thread[c].pc = "idle"
    /\ thread[c].ret.kind = "items"
    /\ thread[c].ret.items # <<>>
    /\ LET popped == Tail(thread[c].ret.items)
           keys == {k \in DOMAIN cache : <<c, k>> \in shared}
           holders == {c} \cup {d \in Threads : \E k \in keys : <<d, k>> \in shared}
       IN  /\ cache' = [k \in DOMAIN cache |->
                          IF k \in keys THEN [cache[k] EXCEPT !.data = popped]
                                        ELSE cache[k]]
           /\ thread' = [d \in Threads |->
                          IF d \in holders
                          THEN [thread[d] EXCEPT !.ret = ReturnedItems(popped)]
                          ELSE thread[d]]
    /\ UNCHANGED <<lock, refresh_thread, stop_refresh, now, shared>>

\* The cities callers pass to start_background_refresh; <<>> stands for None.
CitiesArgs == {<<>>, <<"Mysore", "Bangalore">>}

\* threading.Thread.is_alive(): started and not yet finished
is_alive(w) == thread[w].pc \notin {"unborn", "exited"}

\* A guard that would only look at whether a thread was ever recorded.
ThreadRecorded(t) == t # NoThread

\* `self._refresh_thread is not None and self._refresh_thread.is_alive()`
AlreadyRunning(t) == t # NoThread /\ is_alive(t)

\* Thread objects not yet created, and callers about to create one.
Unborn == {w \in Workers : thread[w].pc = "unborn"}

Starting == {c \in Clients : thread[c].pc \in {"start_clear", "start_thread"}}

\* start_background_refresh(cities): the check of the running thread, and
\* `cities = cities or ["Bangalore"]`.
start_background_refresh(c) ==
    /\ thread[c].pc = "idle"
    /\ Cardinality(Unborn) > Cardinality(Starting)
    /\ \E cities \in CitiesArgs :
          thread' = [thread EXCEPT ![c] =
              IF AlreadyRunning(refresh_thread)
              THEN Return(Call("start_background_refresh", "", ""), ReturnedNone)
              ELSE [Call("start_background_refresh", "", "") EXCEPT
                       !.pc = "start_clear",
                       !.cities = IF cities = <<>> THEN <<"Bangalore">> ELSE cities]]
    /\ UNCHANGED <<cache, lock, refresh_thread, stop_refresh, now, shared>>

\* self._stop_refresh.clear()
start_clear(c) ==
    /\ thread[c].pc = "start_clear"
    /\ stop_refresh' = FALSE
    /\ thread' = [thread EXCEPT ![c].pc = "start_thread"]
    /\ UNCHANGED <<cache, lock, refresh_thread, now, shared>>

\* self._refresh_thread = threading.Thread(target=refresh_loop, daemon=True)
\* and self._refresh_thread.start()
start_thread(c) ==
    /\ thread[c].pc = "start_thread"
    /\ \E w \in Unborn :
          /\ refresh_thread' = w
          /\ thread' = [thread EXCEPT
                ![c] = Return(thread[c], ReturnedNone),
                ![w] = [Locals("loop") EXCEPT !.op = "refresh",
                                              !.cities = thread[c].cities]]
    /\ UNCHANGED <<cache, lock, stop_refresh, now, shared>>

\* stop_background_refresh(): self._stop_refresh.set() and the test of
\* self._refresh_thread.
stop_background_refresh(c) ==
    /\ thread[c].pc = "idle"
    /\ stop_refresh' = TRUE
    /\ thread' = [thread EXCEPT ![c] =
          IF refresh_thread # NoThread
          THEN [Call("stop_background_refresh", "", "") EXCEPT
                   !.pc = "join", !.joined = refresh_thread]
          ELSE Return(Call("stop_background_refresh", "", ""), ReturnedNone)]
    /\ UNCHANGED <<cache, lock, refresh_thread, now, shared>>

\* self._refresh_thread.join(timeout=5) returns, because the thread has
\* finished or because five seconds have passed; self._refresh_thread = NoThread.
stop_join(c) ==
    /\ thread[c].pc = "join"
    /\ refresh_thread' = NoThread
    /\ thread' = [thread EXCEPT ![c] = Return(thread[c], ReturnedNone)]
    /\ UNCHANGED <<cache, lock, stop_refresh, now, shared>>

\* A loop that would never test the stop event.
loop_forever(w) ==
    /\ thread[w].pc = "loop"
    /\ thread' = [thread EXCEPT ![w] = [@ EXCEPT !.pc = "city", !.idx = 1]]
    /\ UNCHANGED <<cache, lock, refresh_thread, stop_refresh, now, shared>>

\* refresh_loop: `while not self._stop_refresh.is_set()`
loop_check(w) ==
    /\ thread[w].pc = "loop"
    /\ thread' = [thread EXCEPT ![w] =
          IF stop_refresh THEN Locals("exited")
          ELSE [@ EXCEPT !.pc = "city", !.idx = 1]]
    /\ UNCHANGED <<cache, lock, refresh_thread, stop_refresh, now, shared>>

\* A loop that would leave out the cities whose entry has not expired.
city_check_skipping_live(w) ==
    /\ thread[w].pc = "city"
    /\ LET l == thread[w]
           done == l.idx > Len(l.cities) \/ stop_refresh
           key == IF done THEN "" ELSE make_key(l.cities[l.idx], "")
       IN  thread' = [thread EXCEPT ![w] =
              IF done
              THEN [l EXCEPT !.pc = "wait", !.city = "",
                             !.wait_until = now + REFRESH_INTERVAL_SECONDS]
              ELSE IF key \in DOMAIN cache /\ ~is_expired(cache[key], now)
              THEN [l EXCEPT !.idx = @ + 1]
              ELSE [l EXCEPT !.pc = "fetch", !.city = l.cities[l.idx]]]
    /\ UNCHANGED <<cache, lock, refresh_thread, stop_refresh, now, shared>>

\* refresh_loop: `for city in cities`, with `if self._stop_refresh.is_set():
\* break`; after the loop, self._stop_refresh.wait(timeout=...) begins.
city_check(w) ==
    /\ thread[w].pc = "city"
    /\ LET l == thread[w]
       IN  thread' = [thread EXCEPT ![w] =
              IF l.idx > Len(l.cities) \/ stop_refresh
              THEN [l EXCEPT !.pc = "wait", !.city = "",
                             !.wait_until = now + REFRESH_INTERVAL_SECONDS]
              ELSE [l EXCEPT !.pc = "fetch", !.city = l.cities[l.idx]]]
    /\ UNCHANGED <<cache, lock, refresh_thread, stop_refresh, now, shared>>

\* A loop that a failed fetch would send straight to the wait for the next
\* cycle.
refresh_fetch_aborting(w) ==
    /\ thread[w].pc = "fetch"
    /\ thread[w].op = "refresh"
    /\ LET l == thread[w]
       IN  \/ \E fetched \in FetchLists :
                thread' = [thread EXCEPT ![w] =
                    [l EXCEPT !.pc = "set", !.experiences = fetched]]
           \/ thread' = [thread EXCEPT ![w] =
                    [l EXCEPT !.pc = "wait", !.city = "",
                              !.wait_until = now + REFRESH_INTERVAL_SECONDS]]
    /\ UNCHANGED <<cache, lock, refresh_thread, stop_refresh, now, shared>>

\* refresh_loop: fetcher.fetch_all(city) inside try; an exception is logged
\* and the loop goes on with the next city.
refresh_fetch(w) ==
    /\ thread[w].pc = "fetch"
    /\ thread[w].op = "refresh"
    /\ LET l == thread[w]
       IN  \/ \E fetched \in FetchLists :
                thread' = [thread EXCEPT ![w] =
                    [l EXCEPT !.pc = "set", !.experiences = fetched]]
           \/ thread' = [thread EXCEPT ![w] =
                    [l EXCEPT !.pc = "city", !.idx = @ + 1]]
    /\ UNCHANGED <<cache, lock, refresh_thread, stop_refresh, now, shared>>

\* refresh_loop: self._stop_refresh.wait(timeout=REFRESH_INTERVAL_SECONDS)
\* returns, because the event is set or because the interval has passed.
wait(w) ==
    /\ thread[w].pc = "wait"
    /\ stop_refresh \/ now >= thread[w].wait_until
    /\ thread' = [thread EXCEPT ![w] = [@ EXCEPT !.pc = "loop", !.wait_until = 0]]
    /\ UNCHANGED <<cache, lock, refresh_thread, stop_refresh, now, shared>>

\* The pipeline next to the cache: a run_workflow that has not started.
RunIdle == RunCreated /\ state = InitialState(0)

\* ExperienceCache(auto_refresh=True): __init__ has called
\* start_background_refresh(), so a refresh thread for ["Bangalore"] runs.
AutoRefreshCreated ==
    /\ cache = EmptyDict
    /\ lock = NoThread
    /\ refresh_thread = "w1"
    /\ stop_refresh = FALSE
    /\ thread = [t \in Threads |->
                    IF t \notin Workers THEN Locals("idle")
                    ELSE IF t = "w1"
                         THEN [Locals("loop") EXCEPT !.op = "refresh",
                                                     !.cities = <<"Bangalore">>]
                         ELSE Locals("unborn")]
    /\ now = 0
    /\ shared = {}

\* Callers reading and writing the entry table while the clock advances; no
\* refresh thread.
CacheInit == RunIdle /\ CacheCreated /\ SourcesIdle

CacheNext ==
    \/ Tick /\ UNCHANGED <<run_vars, source_vars>>
    \/ \E c \in Clients : get(c) /\ UNCHANGED <<run_vars, source_vars>>
    \/ \E c \in Clients : get_or_fetch(c) /\ UNCHANGED <<run_vars, source_vars>>
    \/ \E c \in Clients : get_locked(c) /\ UNCHANGED <<run_vars, source_vars>>
    \/ \E c \in Clients : fetch(c) /\ UNCHANGED <<run_vars, source_vars>>
    \/ \E c \in Clients : set(c) /\ UNCHANGED <<run_vars, source_vars>>
    \/ \E c \in Clients : set_acquire(c) /\ UNCHANGED <<run_vars, source_vars>>
    \/ \E c \in Clients : set_locked(c) /\ UNCHANGED <<run_vars, source_vars>>
    \/ \E c \in Clients : invalidate(c) /\ UNCHANGED <<run_vars, source_vars>>
    \/ \E c \in Clients : invalidate_locked(c) /\ UNCHANGED <<run_vars, source_vars>>
    \/ \E c \in Clients : invalidate_all(c) /\ UNCHANGED <<run_vars, source_vars>>
    \/ \E c \in Clients : invalidate_all_locked(c) /\ UNCHANGED <<run_vars, source_vars>>

CacheSpec == CacheInit /\ [][CacheNext]_vars

\* One caller alone, reading and writing the entries of several keys of one
\* city while the clock advances.
KeyNext ==
    \/ Tick /\ UNCHANGED <<run_vars, source_vars>>
    \/ get("s1") /\ UNCHANGED <<run_vars, source_vars>>
    \/ get_or_fetch("s1") /\ UNCHANGED <<run_vars, source_vars>>
    \/ get_locked("s1") /\ UNCHANGED <<run_vars, source_vars>>
    \/ fetch("s1") /\ UNCHANGED <<run_vars, source_vars>>
    \/ set("s1") /\ UNCHANGED <<run_vars, source_vars>>
    \/ set_acquire("s1") /\ UNCHANGED <<run_vars, source_vars>>
    \/ set_locked("s1") /\ UNCHANGED <<run_vars, source_vars>>
    \/ invalidate("s1") /\ UNCHANGED <<run_vars, source_vars>>
    \/ invalidate_locked("s1") /\ UNCHANGED <<run_vars, source_vars>>
    \/ invalidate_all("s1") /\ UNCHANGED <<run_vars, source_vars>>
    \/ invalidate_all_locked("s1") /\ UNCHANGED <<run_vars, source_vars>>

KeySpec == CacheInit /\ [][KeyNext]_vars

\* A refresh thread going through its cycles while the clock advances: one
\* caller starts it and nobody stops it.
CycleNext ==
    \/ Tick /\ UNCHANGED <<run_vars, source_vars>>
    \/ start_background_refresh("c1") /\ UNCHANGED <<run_vars, source_vars>>
    \/ start_clear("c1") /\ UNCHANGED <<run_vars, source_vars>>
    \/ start_thread("c1") /\ UNCHANGED <<run_vars, source_vars>>
    \/ \E w \in Workers : loop_check(w) /\ UNCHANGED <<run_vars, source_vars>>
    \/ \E w \in Workers : city_check(w) /\ UNCHANGED <<run_vars, source_vars>>
    \/ \E w \in Workers : refresh_fetch(w) /\ UNCHANGED <<run_vars, source_vars>>
    \/ \E w \in Workers : set_acquire(w) /\ UNCHANGED <<run_vars, source_vars>>
    \/ \E w \in Workers : set_locked(w) /\ UNCHANGED <<run_vars, source_vars>>
    \/ \E w \in Workers : wait(w) /\ UNCHANGED <<run_vars, source_vars>>

CycleSpec == CacheInit /\ [][CycleNext]_vars

\* Two callers that read the cache and change the lists they were returned.
AliasNext ==
    \/ Tick /\ UNCHANGED <<run_vars, source_vars>>
    \/ \E c \in Clients : get(c) /\ UNCHANGED <<run_vars, source_vars>>
    \/ \E c \in Clients : get_or_fetch(c) /\ UNCHANGED <<run_vars, source_vars>>
    \/ \E c \in Clients : get_locked(c) /\ UNCHANGED <<run_vars, source_vars>>
    \/ \E c \in Clients : fetch(c) /\ UNCHANGED <<run_vars, source_vars>>
    \/ \E c \in Clients : set_acquire(c) /\ UNCHANGED <<run_vars, source_vars>>
    \/ \E c \in Clients : set_locked(c) /\ UNCHANGED <<run_vars, source_vars>>
    \/ \E c \in Clients : mutate(c) /\ UNCHANGED <<run_vars, source_vars>>

AliasSpec == CacheInit /\ [][AliasNext]_vars

\* Callers starting and stopping the background refresh, and the refresh
\* threads they create.
RefreshNext ==
    \/ \E c \in Clients : start_background_refresh(c) /\ UNCHANGED <<run_vars, source_vars>>
    \/ \E c \in Clients : start_clear(c) /\ UNCHANGED <<run_vars, source_vars>>
    \/ \E c \in Clients : start_thread(c) /\ UNCHANGED <<run_vars, source_vars>>
    \/ \E c \in Clients : stop_background_refresh(c) /\ UNCHANGED <<run_vars, source_vars>>
    \/ \E c \in Clients : stop_join(c) /\ UNCHANGED <<run_vars, source_vars>>
    \/ \E w \in Workers : loop_check(w) /\ UNCHANGED <<run_vars, source_vars>>
    \/ \E w \in Workers : city_check(w) /\ UNCHANGED <<run_vars, source_vars>>
    \/ \E w \in Workers : refresh_fetch(w) /\ UNCHANGED <<run_vars, source_vars>>
    \/ \E w \in Workers : set_acquire(w) /\ UNCHANGED <<run_vars, source_vars>>
    \/ \E w \in Workers : set_locked(w) /\ UNCHANGED <<run_vars, source_vars>>
    \/ \E w \in Workers : wait(w) /\ UNCHANGED <<run_vars, source_vars>>

RefreshSpec == CacheInit /\ [][RefreshNext]_vars

\* The same with the scheduling the threads can rely on: a refresh thread
\* that can take a step eventually takes one (fetch_all returns or raises,
\* its requests carrying timeouts; an Event.wait with a timeout returns), and
\* a join with a timeout returns.
WorkerStep(w) ==
    /\ \/ loop_check(w)
       \/ city_check(w)
       \/ refresh_fetch(w)
       \/ set_acquire(w)
       \/ set_locked(w)
       \/ wait(w)
    /\ UNCHANGED <<run_vars, source_vars>>

RefreshFairness ==
    /\ \A w \in Workers : WF_vars(WorkerStep(w))
    /\ \A c \in Clients : WF_vars(stop_join(c) /\ UNCHANGED <<run_vars, source_vars>>)

\* One caller starting and stopping the background refresh.
StopNext ==
    \/ start_background_refresh("c1") /\ UNCHANGED <<run_vars, source_vars>>
    \/ start_clear("c1") /\ UNCHANGED <<run_vars, source_vars>>
    \/ start_thread("c1") /\ UNCHANGED <<run_vars, source_vars>>
    \/ stop_background_refresh("c1") /\ UNCHANGED <<run_vars, source_vars>>
    \/ stop_join("c1") /\ UNCHANGED <<run_vars, source_vars>>
    \/ \E w \in Workers : loop_check(w) /\ UNCHANGED <<run_vars, source_vars>>
    \/ \E w \in Workers : city_check(w) /\ UNCHANGED <<run_vars, source_vars>>
    \/ \E w \in Workers : refresh_fetch(w) /\ UNCHANGED <<run_vars, source_vars>>
    \/ \E w \in Workers : set_acquire(w) /\ UNCHANGED <<run_vars, source_vars>>
    \/ \E w \in Workers : set_locked(w) /\ UNCHANGED <<run_vars, source_vars>>
    \/ \E w \in Workers : wait(w) /\ UNCHANGED <<run_vars, source_vars>>

RefreshLiveSpec == CacheInit /\ [][StopNext]_vars /\ RefreshFairness

\* Every user of the lock at once: one caller of every method, a second
\* caller of get_or_fetch, and the refresh thread of a cache constructed with
\* auto_refresh=True.
LockInit == RunIdle /\ AutoRefreshCreated /\ SourcesIdle

LockNext ==
    \/ \E c \in {"c1"} : get(c) /\ UNCHANGED <<run_vars, source_vars>>
    \/ \E c \in Clients : get_or_fetch(c) /\ UNCHANGED <<run_vars, source_vars>>
    \/ \E c \in Clients : get_locked(c) /\ UNCHANGED <<run_vars, source_vars>>
    \/ \E c \in Clients : fetch(c) /\ UNCHANGED <<run_vars, source_vars>>
    \/ \E c \in {"c1"} : set(c) /\ UNCHANGED <<run_vars, source_vars>>
    \/ \E t \in Threads : set_acquire(t) /\ UNCHANGED <<run_vars, source_vars>>
    \/ \E t \in Threads : set_locked(t) /\ UNCHANGED <<run_vars, source_vars>>
    \/ \E c \in {"c1"} : invalidate(c) /\ UNCHANGED <<run_vars, source_vars>>
    \/ \E c \in {"c1"} : invalidate_locked(c) /\ UNCHANGED <<run_vars, source_vars>>
    \/ \E c \in {"c1"} : invalidate_all(c) /\ UNCHANGED <<run_vars, source_vars>>
    \/ \E c \in {"c1"} : invalidate_all_locked(c) /\ UNCHANGED <<run_vars, source_vars>>
    \/ \E c \in {"c1"} : get_stats(c) /\ UNCHANGED <<run_vars, source_vars>>
    \/ \E c \in {"c1"} : get_stats_locked(c) /\ UNCHANGED <<run_vars, source_vars>>
    \/ \E w \in Workers : loop_check(w) /\ UNCHANGED <<run_vars, source_vars>>
    \/ \E w \in Workers : city_check(w) /\ UNCHANGED <<run_vars, source_vars>>
    \/ \E w \in Workers : refresh_fetch(w) /\ UNCHANGED <<run_vars, source_vars>>

LockSpec == LockInit /\ [][LockNext]_vars

\* The refresh thread of a cache constructed with auto_refresh=True, with its
\* default interval, next to a caller of get.  The thread is prompt: time
\* passes only while it waits for its interval to end or is inside
\* fetcher.fetch_all, which makes requests over the network.  Every fetch
\* succeeds, and nothing invalidates an entry.
TimeMayPass ==
    \A w \in Workers :
        \/ thread[w].pc \in {"unborn", "exited", "fetch"}
        \/ thread[w].pc = "wait" /\ now < thread[w].wait_until

FetchSucceeds(w) == thread'[w].pc = "set"

PunctualNext ==
    \/ Tick /\ TimeMayPass /\ UNCHANGED <<run_vars, source_vars>>
    \/ get("c1") /\ UNCHANGED <<run_vars, source_vars>>
    \/ get_locked("c1") /\ UNCHANGED <<run_vars, source_vars>>
    \/ \E w \in Workers : loop_check(w) /\ UNCHANGED <<run_vars, source_vars>>
    \/ \E w \in Workers : city_check(w) /\ UNCHANGED <<run_vars, source_vars>>
    \/ \E w \in Workers : refresh_fetch(w) /\ FetchSucceeds(w)
                              /\ UNCHANGED <<run_vars, source_vars>>
    \/ \E w \in Workers : set_acquire(w) /\ UNCHANGED <<run_vars, source_vars>>
    \/ \E w \in Workers : set_locked(w) /\ UNCHANGED <<run_vars, source_vars>>
    \/ \E w \in Workers : wait(w) /\ UNCHANGED <<run_vars, source_vars>>

PunctualSpec == LockInit /\ [][PunctualNext]_vars

\* fetch_all, from its call to its return, with every outcome of every
\* source.
FetchInit == RunIdle /\ CacheCreated /\ FetchAllCalled /\ DedupIdle

FetchNext ==
    \/ fetch_travel_guides /\ UNCHANGED <<run_vars, cache_vars>>
    \/ fetch_instagram /\ UNCHANGED <<run_vars, cache_vars>>
    \/ fetch_twitter /\ UNCHANGED <<run_vars, cache_vars>>
    \/ fetch_reddit /\ UNCHANGED <<run_vars, cache_vars>>
    \/ fetch_all_return /\ UNCHANGED <<run_vars, cache_vars>>

FetchSpec == FetchInit /\ [][FetchNext]_vars

\* _deduplicate on every list of DedupInputs, and then on its own output.
DedupInit == RunIdle /\ CacheCreated /\ FetcherIdle /\ DedupCalled

DedupNext ==
    \/ dedup_call /\ UNCHANGED <<run_vars, cache_vars>>
    \/ dedup_again /\ UNCHANGED <<run_vars, cache_vars>>

DedupSpec == DedupInit /\ [][DedupNext]_vars

----------------------------------------------------------------------------
\* What the properties of the cache read

\* The key a call derives from its arguments.
KeyOf(l) == make_key(l.city, l.category)

\* An entry exists for the key and its expiry time has not passed.
Live(key) == key \in DOMAIN cache /\ ~(now > cache[key].expires_at)

\* The threads inside `with self._lock`.
LockedPcs ==
    {"get_locked", "set_locked", "invalidate_locked", "invalidate_all_locked",
     "get_stats_locked"}

\* C13: get returns items only when a non-expired entry exists for the derived
\* key, and then the items of that entry; without such an entry it reports a
\* miss (returns None); with one and without force_refresh it returns the
\* items.  No step of get changes the entry table (an expired entry is
\* neither refreshed nor removed) and get never reaches the aggregator.
C13_GetStep ==
    \A c \in Clients :
        LET l == thread[c]
            r == thread'[c].ret
        IN  /\ (l.op = "get" /\ l.pc = "get_locked" /\ thread'[c] # l) =>
                  /\ thread'[c].pc = "idle"
                  /\ r.kind = "items" =>
                        Live(KeyOf(l)) /\ r.items = cache[KeyOf(l)].data
                  /\ ~Live(KeyOf(l)) => r = ReturnedNone
                  /\ (Live(KeyOf(l)) /\ ~l.force_refresh) => r.kind = "items"
                  /\ thread'[c].calls = 0
                  /\ cache' = cache
            /\ (thread'[c].op = "get" /\ thread'[c] # l) => cache' = cache

WithinTTL(key) ==
    key \in DOMAIN cache /\ now < cache[key].created_at + 10 * 60

C14_Step ==
    /\ \A c \in Clients :
          LET l == thread[c]
              l2 == thread'[c]
              key == KeyOf(l)
          IN  (l.op = "get_or_fetch" /\ l2 # l) =>
                /\ (l.pc = "get_locked" /\ WithinTTL(key)) =>
                      /\ l2.pc = "idle"
                      /\ l2.ret = ReturnedItems(cache[key].data)
                      /\ l2.calls = 0
                      /\ cache' = cache
                /\ (l.pc = "get_locked" /\ key \notin DOMAIN cache) =>
                      l2.pc = "fetch" /\ l2.calls = 0
                /\ (l.pc = "fetch" /\ l2.pc = "set") => l2.calls = 1
                /\ (l.pc = "set") => l2.calls = 1
                /\ (l.pc = "set_locked") =>
                      /\ l2.pc = "idle"
                      /\ l2.calls = 1
                      /\ l2.ret = ReturnedItems(l.experiences)
                      /\ cache'[key].data = l.experiences
                      /\ cache'[key].created_at = now
    /\ \A k \in DOMAIN cache :
          (k \notin DOMAIN cache' \/ cache'[k] # cache[k]) =>
              \E t \in Threads :
                  thread[t].pc \in {"set_locked", "invalidate_locked",
                                    "invalidate_all_locked"}

C14_OneFetchThenHits == [][C14_Step]_vars

\* c1's get_or_fetch for a category fetched once and stored the empty list
\* the filter left, and c2's get_or_fetch has then returned that list without
\* an aggregator call.
C14_Witness ==
    /\ thread["c1"].pc = "idle" /\ thread["c2"].pc = "idle"
    /\ thread["c1"].op = "get_or_fetch" /\ thread["c1"].calls = 1
    /\ thread["c2"].op = "get_or_fetch" /\ thread["c2"].calls = 0
    /\ thread["c1"].ret = ReturnedItems(<<>>)
    /\ thread["c2"].ret = ReturnedItems(<<>>)
    /\ DOMAIN cache = {"bangalore:food"}
    /\ cache["bangalore:food"].data = <<>>
    /\ now > cache["bangalore:food"].created_at

\* C15: every entry has expires_at = created_at + TTL (ten minutes), and get
\* treats an entry as live at every time before created_at + TTL and as
\* expired at every time after it.
C15_Expiry ==
    \A k \in DOMAIN cache : cache[k].expires_at = cache[k].created_at + 10 * 60

C15_GetStep ==
    \A c \in Clients :
        LET l == thread[c]
            key == KeyOf(l)
        IN  (l.pc = "get_locked" /\ thread'[c] # l /\ key \in DOMAIN cache
                 /\ ~l.force_refresh) =>
                /\ now < cache[key].created_at + 10 * 60 =>
                      thread'[c].ret = ReturnedItems(cache[key].data)
                /\ now > cache[key].created_at + 10 * 60 =>
                      IF l.op = "get" THEN thread'[c].ret = ReturnedNone
                                      ELSE thread'[c].pc = "fetch"

C15_TTLBoundary == []C15_Expiry /\ [][C15_GetStep]_vars

\* get has returned to c1 the items of an entry created at time 0, at a time
\* before the entry's expiry and after its creation.
C15_Witness ==
    /\ thread["c1"].pc = "idle"
    /\ thread["c1"].op = "get"
    /\ thread["c1"].ret = ReturnedItems(<<Gallery>>)
    /\ thread["c2"] = Locals("idle")
    /\ DOMAIN cache = {"bangalore"}
    /\ cache["bangalore"].created_at = 0
    /\ now = 5 * 60

\* The refresh threads that are running.
Running == {w \in Workers : is_alive(w)}

\* C16: after any sequence or interleaving of start_background_refresh and
\* stop_background_refresh at most one refresh thread is running: an earlier
\* thread is never left running next to a new one.
C16_AtMostOneWorker == Cardinality(Running) <= 1

\* The same for calls made one after the other by a single caller.
C16_Sequential == thread["c2"] = Locals("idle") => Cardinality(Running) <= 1

\* C17: once the stop event is set, every running refresh thread exits unless
\* a later start clears the event: a thread that tests the event between two
\* cities or two cycles and finds it set begins no further fetch; a thread
\* that has exited takes no further step, and the entry table is written only
\* by a running thread that holds the lock; and a stop_background_refresh
\* that waits in join returns, also when the refresh thread is in the middle
\* of a fetch.
C17_ExitedStaysSilent ==
    /\ \A w \in Workers :
          /\ thread[w].pc = "exited" => thread'[w] = thread[w]
          /\ (stop_refresh /\ thread[w].pc = "city") => thread'[w].pc # "fetch"
          /\ (stop_refresh /\ thread[w].pc = "loop" /\ thread'[w] # thread[w]) =>
                 thread'[w].pc = "exited"
    /\ cache' # cache =>
          \E w \in Running : thread[w].pc = "set_locked" /\ lock = w

C17_StopTerminates ==
    /\ \A w \in Workers :
          (stop_refresh /\ is_alive(w)) ~> (~is_alive(w) \/ ~stop_refresh)
    /\ \A c \in Clients :
          (thread[c].pc = "join") ~> (thread[c].pc = "idle")
    /\ [][C17_ExitedStaysSilent]_vars

\* stop_background_refresh has returned to c1 while the refresh thread it
\* joined was in the middle of a fetch; the thread has since stored what it
\* fetched and exited, and nobody has started another.
C17_Witness ==
    /\ thread["c1"].pc = "idle"
    /\ thread["c1"].op = "stop_background_refresh"
    /\ thread["c2"] = Locals("idle")
    /\ stop_refresh
    /\ refresh_thread = NoThread
    /\ thread["w1"].pc = "exited"
    /\ thread["w2"].pc = "unborn"
    /\ DOMAIN cache = {"mysore"}

\* C18: a thread is at a statement that reads or writes the entry table (the
\* bodies of get, set, invalidate, invalidate_all and get_stats, the set of
\* get_or_fetch and of the refresh thread included) only while it holds the
\* lock, and the table changes only in a step of the lock holder; a thread
\* inside an aggregator fetch does not hold the lock, and whoever holds the
\* lock is inside one of those bodies, so a fetch in progress keeps nobody
\* from the table.
C18_LockDiscipline ==
    /\ \A t \in Threads : thread[t].pc \in LockedPcs <=> lock = t
    /\ \A t \in Threads : thread[t].pc = "fetch" => lock # t

C18_TableStep ==
    cache' # cache =>
        /\ lock \in Threads
        /\ thread[lock].pc \in LockedPcs
        /\ \A t \in Threads \ {lock} : thread'[t] = thread[t]

C18_TableUnderLock == []C18_LockDiscipline /\ [][C18_TableStep]_vars

\* While c1 and the refresh thread are each inside a fetch, c2's get_or_fetch
\* for another key holds the lock and reads the table.
C18_Witness ==
    /\ thread["c1"].pc = "fetch"
    /\ thread["w1"].pc = "fetch"
    /\ thread["c2"].pc = "get_locked"
    /\ thread["c2"].op = "get_or_fetch"
    /\ KeyOf(thread["c2"]) # KeyOf(thread["c1"])
    /\ KeyOf(thread["c2"]) # KeyOf(thread["w1"])
    /\ lock = "c2"

\* The lists a complete fetch for a key can produce: what fetch_all returned,
\* and for a key with a category the items of that category.
CompleteLists(category) ==
    IF category = "" THEN {<<Gallery>>, <<Cafe, Gallery>>} ELSE {<<>>, <<Cafe>>}

\* C19: two get_or_fetch calls for the same cold key may both fetch and both
\* write.  Each keeps the complete list of its own fetch until it returns it;
\* the write of each replaces the entry of the key by exactly that list and
\* touches no other key, so after the last write the entry is the last
\* writer's list, never a mixture and never absent.
C19_Step ==
    \A c \in Clients :
        LET l == thread[c]
            l2 == thread'[c]
            key == KeyOf(l)
        IN  (l.op = "get_or_fetch" /\ l2 # l) =>
              /\ \A d \in Clients \ {c} : thread'[d] = thread[d]
              /\ l2.pc = "set" =>
                    l2.experiences \in CompleteLists(l.category)
              /\ l.pc = "set" => l2.experiences = l.experiences
              /\ l.pc = "set_locked" =>
                    /\ l2.ret = ReturnedItems(l.experiences)
                    /\ DOMAIN cache' = DOMAIN cache \cup {key}
                    /\ cache'[key].data = l.experiences
                    /\ \A k \in DOMAIN cache \ {key} : cache'[k] = cache[k]

C19_LastWriterWins == [][C19_Step]_vars

\* c1 and c2 both missed the cold key "bangalore" and both fetched: c1 has
\* stored and returned its two items, and c2, which fetched one, holds the
\* lock to store its own list over them.
C19_Witness ==
    /\ now = 0
    /\ thread["c1"].pc = "idle"
    /\ thread["c1"].op = "get_or_fetch"
    /\ thread["c1"].ret = ReturnedItems(<<Cafe, Gallery>>)
    /\ thread["c1"].calls = 1
    /\ thread["c2"].pc = "set_locked"
    /\ thread["c2"].op = "get_or_fetch"
    /\ KeyOf(thread["c2"]) = "bangalore"
    /\ thread["c2"].experiences = <<Gallery>>
    /\ cache["bangalore"].data = <<Cafe, Gallery>>

\* C20: when the aggregator call of get_or_fetch fails, get_or_fetch passes
\* the failure on to its caller and the entry table stays as it is; it goes
\* on to store a list only after a call that returned, and then stores what
\* that call returned (filtered by the category), so that an empty list in
\* the table is never what a failed call left.
C20_FetchStep ==
    \A c \in Clients :
        LET l == thread[c]
            l2 == thread'[c]
        IN  (l.pc = "fetch" /\ l2 # l) =>
              /\ cache' = cache
              /\ \/ l2.pc = "idle" /\ l2.ret = Raised /\ l2.calls = l.calls
                 \/ /\ l2.pc = "set"
                    /\ l2.calls = l.calls + 1
                    /\ l2.experiences \in CompleteLists(l.category)

C20_FailurePropagates == [][C20_FetchStep]_vars

\* c1's get_or_fetch on the empty cache has raised, and the table is still
\* empty.
C20_Witness ==
    /\ thread["c1"].pc = "idle"
    /\ thread["c1"].op = "get_or_fetch"
    /\ thread["c1"].ret = Raised
    /\ thread["c2"] = Locals("idle")
    /\ cache = EmptyDict

\* C21: a get_or_fetch that finds no entry for its key, or one whose expiry
\* time has passed, goes on to the aggregator (once: see C14); what it stores
\* is a fresh entry, created now and expiring one TTL from now, that holds
\* the fetched list and takes the place of whatever the key had, and it
\* returns that list; a get that reads an entry created at the present time
\* returns the items of that entry.
C21_Step ==
    \A c \in Clients :
        LET l == thread[c]
            l2 == thread'[c]
            key == KeyOf(l)
        IN  /\ (l.op = "get_or_fetch" /\ l.pc = "get_locked" /\ l2 # l
                    /\ (key \notin DOMAIN cache
                          \/ now > cache[key].created_at + 10 * 60)) =>
                  l2.pc = "fetch" /\ cache' = cache
            /\ (l.op = "get_or_fetch" /\ l.pc = "set_locked" /\ l2 # l) =>
                  /\ cache'[key] = [data       |-> l.experiences,
                                    created_at |-> now,
                                    expires_at |-> now + 10 * 60]
                  /\ l2.pc = "idle"
                  /\ l2.ret = ReturnedItems(l.experiences)
                  /\ l2.calls = 1
            /\ (l.op = "get" /\ l.pc = "get_locked" /\ l2 # l
                    /\ ~l.force_refresh /\ key \in DOMAIN cache
                    /\ cache[key].created_at = now) =>
                  l2.ret = ReturnedItems(cache[key].data)

C21_FetchStoresFresh == [][C21_Step]_vars

\* After time has passed, c2's get_or_fetch has fetched once and stored a
\* fresh entry, and c1's get has returned the same items.
C21_Witness ==
    /\ now = MaxTicks * ClockStep
    /\ thread["c2"].pc = "idle"
    /\ thread["c2"].op = "get_or_fetch"
    /\ thread["c2"].calls = 1
    /\ thread["c2"].ret = ReturnedItems(<<Cafe, Gallery>>)
    /\ thread["c1"].pc = "idle"
    /\ thread["c1"].op = "get"
    /\ thread["c1"].ret = ReturnedItems(<<Cafe, Gallery>>)
    /\ DOMAIN cache = {"bangalore"}
    /\ cache["bangalore"].created_at = now
    /\ cache["bangalore"].data = <<Cafe, Gallery>>

\* C22: the key of a city with a category differs from the key of the city
\* alone; no step of a get_or_fetch or of an invalidate creates, replaces or
\* removes the entry of any key but the one its own arguments derive; and a
\* get_or_fetch with a category whose own key has no entry goes on to fetch
\* whatever the entry of the city alone is.
C22_Step ==
    \A c \in SoloCallers :
        LET l == thread'[c]
            before == thread[c]
            key == KeyOf(l)
        IN  /\ (l # before /\ l.pc # "idle"
                  /\ l.op \in {"get_or_fetch", "invalidate"}) =>
                  /\ l.category # "" => key # make_key(l.city, "")
                  /\ DOMAIN cache' \ {key} = DOMAIN cache \ {key}
                  /\ \A k \in DOMAIN cache \ {key} : cache'[k] = cache[k]
            /\ (l # before /\ before.pc \in {"set_locked", "invalidate_locked"}
                  /\ before.op \in {"get_or_fetch", "invalidate"}) =>
                  /\ DOMAIN cache' \ {KeyOf(before)} = DOMAIN cache \ {KeyOf(before)}
                  /\ \A k \in DOMAIN cache \ {KeyOf(before)} : cache'[k] = cache[k]
            /\ (before.op = "get_or_fetch" /\ before.pc = "get_locked"
                  /\ l # before /\ KeyOf(before) \notin DOMAIN cache) =>
                  l.pc = "fetch"

C22_IndependentKeys == [][C22_Step]_vars

\* While the entry of the city alone, created at time 0, is live, a
\* get_or_fetch for the category Food has fetched and stored its own entry;
\* the entry of the city alone and that of another category are as they were.
C22_Witness ==
    /\ thread["s1"].pc = "idle"
    /\ thread["s1"].op = "get_or_fetch"
    /\ thread["s1"].calls = 1
    /\ thread["s1"].ret = ReturnedItems(<<Cafe>>)
    /\ DOMAIN cache = {"bangalore", "bangalore:food", "bangalore:art"}
    /\ cache["bangalore"].created_at = 0
    /\ cache["bangalore:art"].created_at = 0
    /\ cache["bangalore:food"].created_at = ClockStep
    /\ now = ClockStep

\* C23: invalidate removes the entry of the key its arguments derive and
\* leaves every other entry as it is, and changes nothing when that key has
\* no entry; invalidate_all leaves no entry; and a get for a key that has no
\* entry reports a miss.
C23_Step ==
    \A c \in SoloCallers :
        LET l == thread[c]
            key == KeyOf(l)
        IN  (thread'[c] # l) =>
              /\ l.pc = "invalidate_locked" =>
                    /\ DOMAIN cache' = DOMAIN cache \ {key}
                    /\ \A k \in DOMAIN cache' : cache'[k] = cache[k]
                    /\ key \notin DOMAIN cache => cache' = cache
              /\ l.pc = "invalidate_all_locked" => DOMAIN cache' = {}
              /\ (l.pc = "get_locked" /\ l.op = "get" /\ key \notin DOMAIN cache) =>
                    thread'[c].ret = ReturnedNone /\ cache' = cache

C23_InvalidateExact == [][C23_Step]_vars

\* An invalidate has returned at time 0 and two of the three keys still have
\* the entries created at time 0.
C23_Witness ==
    /\ thread["s1"].pc = "idle"
    /\ thread["s1"].op = "invalidate"
    /\ thread["s1"].ret = ReturnedNone
    /\ now = 0
    /\ DOMAIN cache = {"bangalore", "bangalore:art"}
    /\ cache["bangalore"].data = <<Cafe, Gallery>>
    /\ cache["bangalore:art"].data = <<Gallery>>

\* C24: a fetch that fails for one city of a refresh cycle changes no entry
\* and sends the thread on to the next city of the same cycle; every city
\* that remains is fetched, and what was fetched is stored under that city's
\* key only; after the last city the thread waits and then begins the next
\* cycle with the first city.
C24_Step ==
    \A w \in Workers :
        LET l == thread[w]
            l2 == thread'[w]
        IN  (l.op = "refresh" /\ l2 # l) =>
              /\ l.pc = "fetch" =>
                    /\ cache' = cache
                    /\ \/ l2.pc = "set" /\ l2.city = l.city /\ l2.idx = l.idx
                       \/ l2.pc = "city" /\ l2.idx = l.idx + 1
              /\ (l.pc = "city" /\ l.idx <= Len(l.cities) /\ ~stop_refresh) =>
                    l2.pc = "fetch" /\ l2.city = l.cities[l.idx]
              /\ l.pc = "set_locked" =>
                    /\ cache'[KeyOf(l)].data = l.experiences
                    /\ \A k \in DOMAIN cache \ {KeyOf(l)} :
                          k \in DOMAIN cache' /\ cache'[k] = cache[k]
                    /\ l2.pc = "city" /\ l2.idx = l.idx + 1
              /\ (l.pc = "city" /\ l.idx > Len(l.cities)) => l2.pc = "wait"
              /\ l.pc = "wait" => l2.pc = "loop"
              /\ (l.pc = "loop" /\ ~stop_refresh) => l2.pc = "city" /\ l2.idx = 1

C24_FailureKeepsCycle == [][C24_Step]_vars

\* The refresh thread for Mysore and Bangalore is past the last city of a
\* cycle and waits for the next one; the fetch for Mysore failed, so Mysore
\* has no entry, and Bangalore, which comes after it, has been stored.
C24_Witness ==
    /\ thread["w1"].pc = "wait"
    /\ thread["w1"].cities = <<"Mysore", "Bangalore">>
    /\ ~stop_refresh
    /\ DOMAIN cache = {"bangalore"}

\* C25: in a cycle the refresh thread goes on to fetch each of its cities
\* without looking at the city's entry, live or expired, and what it stores is
\* a new entry that holds exactly the fetched list, created now and expiring
\* one TTL from now.
C25_Step ==
    \A w \in Workers :
        LET l == thread[w]
            l2 == thread'[w]
        IN  (l.op = "refresh" /\ l2 # l) =>
              /\ (l.pc = "city" /\ l.idx <= Len(l.cities) /\ ~stop_refresh) =>
                    l2.pc = "fetch"
              /\ (l.pc = "fetch" /\ l2.pc = "set") =>
                    l2.experiences \in {<<Gallery>>, <<Cafe, Gallery>>}
              /\ l.pc = "set_locked" =>
                    cache'[make_key(l.city, "")] =
                        [data       |-> l.experiences,
                         created_at |-> now,
                         expires_at |-> now + 10 * 60]

C25_RefreshIgnoresTTL == [][C25_Step]_vars

\* In a later cycle the refresh thread holds the lock to store what it has
\* fetched for Mysore, while the entry Mysore got at time 0 is still live and
\* holds another list.
C25_Witness ==
    /\ thread["w1"].pc = "set_locked"
    /\ thread["w1"].city = "Mysore"
    /\ "mysore" \in DOMAIN cache
    /\ cache["mysore"].created_at = 0
    /\ now = 10 * 60
    /\ ~(now > cache["mysore"].expires_at)
    /\ cache["mysore"].data # thread["w1"].experiences

\* C26: the contents of the entries change only in a step of a cache
\* operation that holds the lock; in particular they do not change when a
\* caller changes the list it was returned.
C26_TableStep ==
    cache' # cache =>
        /\ lock \in Threads
        /\ thread[lock].pc \in LockedPcs

C26_EntriesChangeUnderLockOnly == [][C26_TableStep]_vars

\* The positions of fetch_all, in the order of its code.
FetchOrder ==
    <<"travel_guides", "instagram", "twitter", "reddit", "deduplicate", "returned">>

Position(p) == CHOOSE i \in 1..Len(FetchOrder) : FetchOrder[i] = p

\* What the sources that returned have returned, in the order of the calls.
RECURSIVE ItemsOfReturned(_)
ItemsOfReturned(i) ==
    IF i = 0 THEN <<>>
    ELSE ItemsOfReturned(i - 1) \o
         (IF source_outcome[FetchOrder[i]].kind = "returned"
          THEN source_outcome[FetchOrder[i]].items ELSE <<>>)

ToDicts(exps) == [i \in 1..Len(exps) |-> to_dict(exps[i])]

\* C27: whichever sources raise, fetch_all goes on: every source before its
\* position has been called (it returned or it raised) and none after it, and
\* what fetch_all returns is the deduplicated items, as dicts, of exactly the
\* sources that returned, in the order of the calls.
C27_SourceFailureIsolated ==
    /\ \A s \in SourceNames :
           source_outcome[s].kind # "none" <=> Position(fetch_pc) > Position(s)
    /\ fetch_pc = "returned" =>
           fetch_result = ToDicts(deduplicate(ItemsOfReturned(4)))

\* The travel guides and Reddit raised, Instagram and Twitter were still
\* called, and fetch_all returned their five items.
C27_Witness ==
    /\ fetch_pc = "returned"
    /\ source_outcome["travel_guides"].kind = "raised"
    /\ source_outcome["reddit"].kind = "raised"
    /\ source_outcome["instagram"].kind = "returned"
    /\ source_outcome["twitter"].kind = "returned"
    /\ fetch_result = ToDicts(MOCK_INSTAGRAM_EXPERIENCES \o MOCK_TWITTER_EXPERIENCES)

\* The positions of a list whose item is the first of its name, the name
\* being what N makes of the item.
FirstOfName(exps, N(_)) ==
    {i \in 1..Len(exps) : \A j \in 1..(i - 1) : N(exps[j]) # N(exps[i])}

\* The items of a list at the given positions, in the order of the list.
ItemsAt(exps, positions) ==
    LET F[i \in 0..Len(exps)] ==
            IF i = 0 THEN <<>>
            ELSE IF i \in positions THEN Append(F[i - 1], exps[i]) ELSE F[i - 1]
    IN  F[Len(exps)]

NamesUnder(exps, N(_)) == {N(exps[i]) : i \in 1..Len(exps)}

\* The list with the source of every item replaced.
FromSource(exps, source) ==
    [i \in 1..Len(exps) |-> SourceExperience(exps[i].name, source)]

NameSeq(exps) == [i \in 1..Len(exps) |-> exps[i].name]

\* What is said of _deduplicate, for a normalization N: the output is the
\* items of the input that are the first of their normalized name, in the
\* order of the input; no two items of the output share a normalized name;
\* every normalized name of the input is the name of an item of the output;
\* and the same names are kept whatever the sources of the items are.
FirstPerName(N(_)) ==
    dedup_pc \in {"returned", "reapplied"} =>
        /\ dedup_unique = ItemsAt(dedup_input, FirstOfName(dedup_input, N))
        /\ \A i, j \in 1..Len(dedup_unique) :
               i # j => N(dedup_unique[i]) # N(dedup_unique[j])
        /\ NamesUnder(dedup_input, N) = NamesUnder(dedup_unique, N)
        /\ NameSeq(deduplicate(FromSource(dedup_input, "instagram")))
               = NameSeq(dedup_unique)

\* The normalization as the claim words it: the name lowercased, and every
\* character that is neither alphanumeric nor a space removed.
IsAlnumOrSpace(ch) == ch \in Alnum \/ ch = " "

lowered_alnum_space(exp) == SelectSeq(name_lower(exp.name), IsAlnumOrSpace)

\* C28, as worded: _deduplicate returns the first item of each normalized
\* name in input order, with no normalized name twice and none of the input
\* missing, whatever the sources, the normalized name being the lowercased
\* name without the characters that are neither alphanumeric nor a space.
C28_FirstPerLoweredName == FirstPerName(lowered_alnum_space)

\* C28, amended: the same, the normalized name being the lowercased name with
\* the whitespace at its two ends removed first and then every character that
\* is neither alphanumeric nor whitespace removed.
C28_FirstPerNormalizedName == FirstPerName(normalized)

\* Of "A!" from Reddit, "!" and " a" from a travel guide, the first two are
\* returned: " a" has the normalized name of "A!", which came first and from
\* another source.
C28_Witness ==
    /\ dedup_pc = "returned"
    /\ dedup_input = <<SourceExperience(<<"A", "!">>, "reddit"),
                       SourceExperience(<<"!">>, "travel_guide"),
                       SourceExperience(<<" ", "a">>, "travel_guide")>>
    /\ dedup_unique = <<SourceExperience(<<"A", "!">>, "reddit"),
                        SourceExperience(<<"!">>, "travel_guide")>>

\* C29: _deduplicate applied to a list it has returned returns that list, the
\* same items in the same order.
C29_DedupIdempotent ==
    dedup_pc = "reapplied" => dedup_unique = dedup_input

\* _deduplicate has been applied to its own output <<"a !", "a">>, two items
\* whose normalized names "a " and "a" differ only by a blank, and has
\* returned both.
C29_Witness ==
    /\ dedup_pc = "reapplied"
    /\ dedup_input = <<SourceExperience(<<"a", " ", "!">>, "reddit"),
                       SourceExperience(<<"a">>, "travel_guide")>>
    /\ dedup_unique = dedup_input

\* The travel-guide call has returned.
GuidesReturned == source_outcome["travel_guides"].kind = "returned"

\* C30: the travel-guide source returns what scraping yielded followed by the
\* whole curated list when scraping yielded fewer than 5 items, and what
\* scraping yielded and nothing else when it yielded 5 or more; so when the
\* source has returned, whatever scraping and Reddit yielded, what fetch_all
\* returns is not empty, it has an item of every curated name if scraping
\* yielded fewer than 5, and no curated item otherwise.
C30_NeverEmpty ==
    GuidesReturned =>
        LET live == source_outcome["travel_guides"].live
            items == source_outcome["travel_guides"].items
        IN  /\ Len(live) < 5 => items = live \o CURATED_EXPERIENCES
            /\ Len(live) >= 5 => items = live
            /\ fetch_pc = "returned" =>
                   /\ fetch_result # <<>>
                   /\ Len(live) < 5 =>
                          NamesUnder(CURATED_EXPERIENCES, normalized)
                              \subseteq NamesUnder(fetch_result, normalized)
                   /\ Len(live) >= 5 =>
                          \A k \in 1..Len(fetch_result) :
                              fetch_result[k].source # "travel_guide"

\* Scraping and Reddit both yielded nothing, and fetch_all returned the eight
\* curated items followed by the three of Instagram and the two of Twitter.
C30_Witness ==
    /\ fetch_pc = "returned"
    /\ GuidesReturned
    /\ source_outcome["travel_guides"].live = <<>>
    /\ source_outcome["reddit"].kind = "returned"
    /\ source_outcome["reddit"].live = <<>>
    /\ fetch_result = ToDicts(CURATED_EXPERIENCES \o MOCK_INSTAGRAM_EXPERIENCES
                                  \o MOCK_TWITTER_EXPERIENCES)

\* The orders in which the four sources can be called.
SourceOrders ==
    {order \in [1..4 -> SourceNames] :
         \A i, j \in 1..4 : i # j => order[i] # order[j]}

\* What fetch_all returns when it calls the sources in the given order and
\* each source does what it did in this call.
RECURSIVE ItemsInOrder(_, _)
ItemsInOrder(order, i) ==
    IF i = 0 THEN <<>>
    ELSE ItemsInOrder(order, i - 1) \o
         (IF source_outcome[order[i]].kind = "returned"
          THEN source_outcome[order[i]].items ELSE <<>>)

FetchedInOrder(order) == ToDicts(deduplicate(ItemsInOrder(order, 4)))

Range(seq) == {seq[i] : i \in 1..Len(seq)}

\* No normalized name is returned by two sources.
SourcesDisjoint ==
    \A s, t \in SourceNames :
        s # t => NamesUnder(source_outcome[s].items, normalized)
                     \cap NamesUnder(source_outcome[t].items, normalized) = {}

\* C31, as worded: with the same result of every source, fetch_all returns
\* the same set of items in whatever order it calls the sources.
C31_SameItemsInEveryOrder ==
    fetch_pc = "returned" =>
        \A order \in SourceOrders : Range(FetchedInOrder(order)) = Range(fetch_result)

\* C31, amended: with the same result of every source, fetch_all returns
\* items of the same set of normalized names in whatever order it calls the
\* sources, and the same set of items when no normalized name is returned by
\* two sources.
C31_SameNamesInEveryOrder ==
    fetch_pc = "returned" =>
        \A order \in SourceOrders :
            /\ NamesUnder(FetchedInOrder(order), normalized)
                   = NamesUnder(fetch_result, normalized)
            /\ SourcesDisjoint => Range(FetchedInOrder(order)) = Range(fetch_result)

\* Instagram returned "i1" and Reddit a post named " I1": fetch_all returned
\* the Instagram item, and with Reddit called first it returns the post.
C31_Witness ==
    /\ fetch_pc = "returned"
    /\ source_outcome["instagram"].kind = "returned"
    /\ Len(source_outcome["reddit"].items) = 2
    /\ to_dict(MOCK_INSTAGRAM_EXPERIENCES[1]) \in Range(fetch_result)
    /\ \E order \in SourceOrders :
           /\ order[1] = "reddit"
           /\ to_dict(MOCK_INSTAGRAM_EXPERIENCES[1]) \notin Range(FetchedInOrder(order))
           /\ to_dict(SourceExperience(<<" ", "I", "1">>, "reddit"))
                  \in Range(FetchedInOrder(order))

\* The stages whose trace entry has the given status.
StagesWith(status) == {s \in Stages : status \in StatusOf(s)}

\* The entry run_workflow appends last.
Completed == Trace[Len(Trace)]

\* C32: in the trace of a finished run the pipeline-completed entry reports
\* as agents_succeeded the number of stages whose entry has status success
\* and as agents_failed the number whose entry has status error; the two
\* coordinator entries are in neither count, and succeeded, failed and
\* skipped stages are five together.
C32_CompletedCounts ==
    pc = "done" =>
        /\ Completed.agent = "coordinator" /\ Completed.status = "completed"
        /\ Completed.agents_succeeded = Cardinality(StagesWith("success"))
        /\ Completed.agents_failed = Cardinality(StagesWith("error"))
        /\ Cardinality(EntriesOf(Trace, "coordinator")) = 2
        /\ Completed.agents_succeeded + Completed.agents_failed
               + Cardinality(StagesWith("skipped")) = 5
        /\ response.agent_trace = Trace

\* A finished run with three stages succeeded and two failed.
C32_Witness ==
    /\ pc = "done"
    /\ Completed.agents_succeeded = 3
    /\ Completed.agents_failed = 2
    /\ StagesWith("skipped") = {}

\* C33: within one run the Generation Service is called at most once for each
\* stage, and no step calls it for a stage whose call has failed.
C33_NoRetry ==
    /\ [](\A s \in Stages : invoked[s] <= 1)
    /\ [][\A s \in Stages : s \in failed => invoked'[s] = invoked[s]]_vars

\* A finished run in which the calls of the Context stage and of the
\* Synthesis stage failed, each made once.
C33_Witness ==
    /\ pc = "done"
    /\ {"cultural_context", "plot_builder"} \subseteq failed
    /\ invoked["cultural_context"] = 1
    /\ invoked["plot_builder"] = 1
    /\ "error" \in StatusOf("cultural_context")
    /\ "error" \in StatusOf("plot_builder")

\* C34: a run always comes to its end and returns a result, also when a
\* Generation Service call does not return by itself: the call is cut off,
\* the stage records an error and the remaining stages follow.
C34_RunReturns == <>(pc = "done")

\* The suggestion of the state has a title that is not empty.
Titled(collision) == DictTruthy(collision) /\ Get(collision, "title", "") # ""

\* C35: the response of a finished run has one experience for each
\* discovered item of the final state, in the same order and with its name
\* and category; its narrative, context map, scaffolding map, trace and
\* session_id are those of the state, the session_id being the one given at
\* state creation; its budget_breakdown is absent exactly when the cost
\* breakdown of the state is empty, and its collision_suggestion is absent
\* exactly when the suggestion of the state has no non-empty title.
C35_ProjectionFaithful ==
    pc = "done" =>
        /\ Len(response.experiences) = Len(Found)
        /\ \A k \in 1..Len(Found) :
               /\ response.experiences[k].name = Found[k].name
               /\ response.experiences[k].category = Found[k].category
        /\ response.narrative_itinerary = state.narrative_itinerary
        /\ response.cultural_context = state.cultural_context
        /\ response.social_scaffolding = state.social_scaffolding
        /\ response.agent_trace = Trace
        /\ response.session_id = state.session_id
        /\ \E budget_max \in BudgetMaxValues :
               response.session_id = InitialState(budget_max).session_id
        /\ response.budget_breakdown = None <=> ~DictTruthy(state.budget_breakdown)
        /\ DictTruthy(state.budget_breakdown) =>
               response.budget_breakdown.total_estimate
                   = Get(state.budget_breakdown, "total_estimate", 0)
        /\ response.collision_suggestion = None <=> ~Titled(state.collision_suggestion)
        /\ Titled(state.collision_suggestion) =>
               response.collision_suggestion.title = state.collision_suggestion.title

\* A finished run with two items, a story, a suggestion whose title is empty
\* and no cost breakdown: the response has the two items and the story, and
\* neither a suggestion nor a breakdown.
C35_Witness ==
    /\ pc = "done"
    /\ Len(response.experiences) = 2
    /\ response.narrative_itinerary = "story"
    /\ DictTruthy(state.collision_suggestion)
    /\ response.collision_suggestion = None
    /\ response.budget_breakdown = None

\* C36: in the final state of a run, the trace entry of a stage has status
\* error exactly when the error list holds an ErrorEntry of that stage; so a
\* Discovery call that succeeds with no item has no entry with status error.
C36_ErrorStatusIffErrorEntry ==
    pc = "done" =>
        \A s \in Stages :
            "error" \in StatusOf(s) <=> EntriesOf(Errors, s) # {}

\* C37: the trace of a finished run names, in this order, the coordinator
\* (started), discovery, cultural_context, community, plot_builder, budget
\* and the coordinator (completed), whichever branch returned first.
C37_TraceOrderFixed ==
    pc = "done" =>
        [k \in 1..Len(Trace) |-> Trace[k].agent]
            = <<"coordinator", "discovery", "cultural_context", "community",
                "plot_builder", "budget", "coordinator">>

\* The items of a fetched list whose category is, in any case of letters, the
\* category a key names.
OfKeyCategory(list, key_category) ==
    LET keep(exp) == Lower(Get(exp, "category", "")) = key_category
    IN  SelectSeq(list, keep)

\* A get_or_fetch of thread c that missed stores its entry in this step.
StoresFiltered(c) ==
    /\ thread[c].pc = "set_locked"
    /\ thread[c].op = "get_or_fetch"
    /\ thread[c].category # ""
    /\ thread'[c].pc = "idle"

\* C38: when a get_or_fetch with a category has missed, the entry it stores
\* under the filtered key holds exactly the items of the list it fetched whose
\* category is, case-insensitively, the category the key names, whichever
\* category string derived the key.
C38_Step ==
    \A c \in Threads :
        StoresFiltered(c) =>
            LET l == thread[c]
                key == make_key(l.city, l.category)
            IN  /\ key \in DOMAIN cache'
                /\ cache'[key].data = OfKeyCategory(l.fetched, Strip(Lower(l.category)))

C38_FilteredViewOfKey == [][C38_Step]_vars

\* A get without force_refresh for the city the refresh thread serves
\* returns in this step.
GetReturns(c) ==
    /\ thread[c].pc = "get_locked"
    /\ thread[c].op = "get"
    /\ ~thread[c].force_refresh
    /\ make_key(thread[c].city, thread[c].category) = "bangalore"
    /\ thread'[c].pc = "idle"

\* C39: while the refresh thread runs with its default interval, once a
\* refresh has stored the entry of the city, every get for the city returns
\* items: none reports a miss.
C39_Step ==
    \A c \in Clients :
        (GetReturns(c) /\ "bangalore" \in DOMAIN cache /\ is_alive(refresh_thread))
            => thread'[c].ret.kind = "items"

C39_NoMissWhileRefreshing == [][C39_Step]_vars

====
